---- MODULE Spec2Model ----
(***************************************************************************)
(* cineplexx_rss: the cache-augmented, concurrency-bounded enrichment      *)
(* pipeline (scraper.py) and the snapshot / diff / event-log state store   *)
(* (state.py).                                                             *)
(*                                                                         *)
(* Conventions.                                                            *)
(*  - A text (Python str) is a sequence of one-character strings.          *)
(*  - Python None / a missing dict key is the value None below.            *)
(*  - An optional value (dict | None) is a sequence of length <= 1.        *)
(*  - A film URL is a natural number: k >= 1 stands for the k-th film URL  *)
(*    in ascending string order, 0 stands for the empty string "".         *)
(***************************************************************************)
EXTENDS Integers, Sequences, FiniteSets, TLC

VARIABLES
  now,                \* wall clock, in TTL units
  cacheStore,         \* the TTL store behind the Cache port: key -> optional [value, exp]
  limit,              \* max_film_pages_concurrency of the configuration
  runNo,              \* number of scrape_movies calls started so far
  runState,           \* "idle" | "running" | "returned" | "failed"
  raw,                \* the candidate list of the current run
  semaphore,          \* value of asyncio.Semaphore(max_film_pages_concurrency)
  cache_hits,
  cache_misses,
  film_pages_fetched,
  tasks,              \* per candidate: the build_movie coroutine's frame
  movies,             \* the list scrape_movies returns
  startedAt,          \* history: clock value when the current run started
  prevWrites,         \* history: url -> optional entry the previous run stored
  cache0,             \* history: the cache content when the current run started
  cache,              \* the Cache handed to scrape_movies: "Cache" | "NullCache"
  anchors,            \* the film anchors of the listing page that carry a URL and a title
  snapshot,           \* State.snapshot: url -> title
  events,             \* State.events
  lastCall,           \* history: the last state-store call, its inputs and outputs
  stateFile,          \* the state file at the configured path
  saved,              \* history: the State save_state wrote last (optional)
  loadResult,         \* what the last load_state call did
  html,               \* the page _fetch returned, as the parser's token stream
  shapes,             \* history: the kinds of messages the page was composed of
  fed,                \* number of tokens parser.feed has handled
  parser,             \* the fields of _TelegramHtmlParser
  tgLimit,            \* the limit argument of scrape_telegram_channel
  tgResult            \* the TelegramChannel returned (optional)

scrapeVars == <<now, cacheStore, limit, runNo, runState, raw, semaphore, cache_hits, cache_misses, film_pages_fetched, tasks, movies, startedAt, prevWrites, cache0, cache, anchors>>

storeVars == <<snapshot, events, lastCall>>

fileVars == <<stateFile, saved, loadResult>>

telegramVars == <<html, shapes, fed, parser, tgLimit, tgResult>>

nonScrapeVars == <<storeVars, fileVars, telegramVars>>

nonStoreVars == <<scrapeVars, fileVars, telegramVars>>

nonFileVars == <<scrapeVars, storeVars, telegramVars>>

vars == <<scrapeVars, storeVars, fileVars, telegramVars>>

(***************************************************************************)
(* Bounds of the model.                                                    *)
(***************************************************************************)
MaxCandidates == 2

MaxConcurrency == 2

MaxRuns == 3

MaxTime == 3

\* state store: number of URLs, length of a record list handed to a call,
\* length of the event log before a call, largest max_events_in_state
MaxUrl == 3

MaxCurrent == 2

MaxLog == 3

MaxEvents == 3

\* Telegram: messages per page, largest limit argument
MaxPosts == 3

MaxLimit == 2

(***************************************************************************)
(* Configuration values, in clock units (the defaults are 604800 s and     *)
(* 3600 s: the positive TTL is the longer one).                            *)
(***************************************************************************)
FilmCacheTtlSeconds == 2

CacheNegativeTtlSeconds == 1

(***************************************************************************)
(* Texts.                                                                  *)
(***************************************************************************)
None == <<"None">>

Truthy(v) == v /= None /\ v /= <<>>

\* Python's `x or y`
OrElse(x, y) == IF Truthy(x) THEN x ELSE y

\* Python's \s and str.strip(): "FS" stands for U+001C, which Python counts
\* as whitespace and JavaScript's trim() does not
IsSpace(c) == c \in {" ", "\n", "\r", "FS"}

RECURSIVE DropLeadingSpace(_)
DropLeadingSpace(s) ==
  IF s /= <<>> /\ IsSpace(Head(s)) THEN DropLeadingSpace(Tail(s)) ELSE s

RECURSIVE CollapseSpace(_)
\* re.sub(r"\s+", " ", s)
CollapseSpace(s) ==
  IF s = <<>> THEN <<>>
  ELSE IF IsSpace(Head(s)) THEN <<" ">> \o CollapseSpace(DropLeadingSpace(s))
  ELSE <<Head(s)>> \o CollapseSpace(Tail(s))

Reverse(s) == [i \in 1..Len(s) |-> s[Len(s) + 1 - i]]

\* str.strip()
Strip(s) == Reverse(DropLeadingSpace(Reverse(DropLeadingSpace(s))))

\* scraper.py _normalize_space: re.sub(r"\s+", " ", s).strip()
_normalize_space(s) == Strip(CollapseSpace(s))

CodePoint(c) ==
  CASE c = "\n" -> 10
    [] c = "\r" -> 13
    [] c = "FS" -> 28
    [] c = " " -> 32
    [] c = "A" -> 65
    [] c = "B" -> 66
    [] c = "Z" -> 90
    [] c = "a" -> 97
    [] c = "b" -> 98
    [] c = "c" -> 99
    [] c = "d" -> 100
    [] c = "z" -> 122

\* str.lower()
Lower(s) ==
  [i \in 1..Len(s) |-> CASE s[i] = "A" -> "a" [] s[i] = "B" -> "b" [] s[i] = "Z" -> "z" [] OTHER -> s[i]]

RECURSIVE TextLess(_, _)
\* Python's < on str: lexicographic by code point
TextLess(s, t) ==
  IF t = <<>> THEN FALSE
  ELSE IF s = <<>> THEN TRUE
  ELSE IF CodePoint(Head(s)) /= CodePoint(Head(t)) THEN CodePoint(Head(s)) < CodePoint(Head(t))
  ELSE TextLess(Tail(s), Tail(t))

(***************************************************************************)
(* models.Movie, as scrape_movies builds it.                               *)
(***************************************************************************)
Movie(title, url, description) == [title |-> title, url |-> url, description |-> description]

\* mutant: the list ordered by URL alone
MovieKeyLessByUrl(a, b) == a.url < b.url

\* the sort key of scraper.py line 206: (m.title.lower(), m.url)
MovieKeyLess(a, b) ==
  \/ TextLess(Lower(a.title), Lower(b.title))
  \/ Lower(a.title) = Lower(b.title) /\ a.url < b.url

RECURSIVE InsertMovie(_, _)
InsertMovie(sorted, m) ==
  IF sorted = <<>> THEN <<m>>
  ELSE IF MovieKeyLess(m, Head(sorted)) THEN <<m>> \o sorted
  ELSE <<Head(sorted)>> \o InsertMovie(Tail(sorted), m)

RECURSIVE SortMovies(_)
\* list.sort(key=...): stable, ascending
SortMovies(ms) ==
  IF ms = <<>> THEN <<>>
  ELSE InsertMovie(SortMovies(SubSeq(ms, 1, Len(ms) - 1)), ms[Len(ms)])

\* mutant: only the URL is required
KeepMovieWithUrl(m) == m.url /= 0

\* scraper.py line 205: [m for m in movies if m.title and m.url]
KeepMovie(m) == m.title /= <<>> /\ m.url /= 0

(***************************************************************************)
(* The Cache port (cache.py): a TTL key/value store. set_json stores the   *)
(* value for ttl_seconds, get_json returns it until it expires and absent  *)
(* afterwards; either call may raise.                                      *)
(***************************************************************************)
Urls == 1..MaxCandidates

\* cache_key_for_url: a fixed namespace prefix and a fingerprint of the URL
cache_key_for_url(u) == <<"cineplexx:film:", u>>

CacheKeys == {cache_key_for_url(u) : u \in Urls}

\* Cache.get_json(key) at time t
get_json(key, t) ==
  IF cacheStore[key] /= <<>> /\ t < cacheStore[key][1].exp
  THEN <<cacheStore[key][1].value>>
  ELSE <<>>

\* Cache.set_json(key, value, ttl_seconds) at time t
set_json(key, value, ttl_seconds, t) ==
  [cacheStore EXCEPT ![key] = <<[value |-> value, exp |-> t + ttl_seconds]>>]

\* NullCache.get_json(key): absent, whatever was set before
NullCache_get_json(key) == <<>>

\* NullCache.set_json(key, value, ttl_seconds): stores nothing
NullCache_set_json(key, value, ttl_seconds) == cacheStore

\* entries the store may hold before the first run: none, a positive entry
\* without the optional keys (as in test_scraper_schedule_cache_hit.py), one
\* whose title is empty, a negative entry, and one with neither description
\* nor error
SeedValues ==
  { [title |-> <<"Z">>, description |-> <<"d">>, error |-> None, fetched_at |-> 0, source |-> None],
    [title |-> <<>>, description |-> <<"d">>, error |-> None, fetched_at |-> 0, source |-> None],
    [title |-> <<"Z">>, description |-> None, error |-> <<"not_found">>, fetched_at |-> 0, source |-> <<"cineplexx">>],
    [title |-> <<"Z">>, description |-> None, error |-> None, fetched_at |-> 0, source |-> None] }

SeedTtl(v) == IF Truthy(v.error) THEN CacheNegativeTtlSeconds ELSE FilmCacheTtlSeconds

SeedStores ==
  { [k \in CacheKeys |-> <<>>] } \cup
  { [k \in CacheKeys |-> IF k = cache_key_for_url(1) THEN <<[value |-> v, exp |-> SeedTtl(v)]>> ELSE <<>>] : v \in SeedValues }

(***************************************************************************)
(* Candidates (the list page.evaluate returns, scraper.py lines 59-89):    *)
(* each URL at most once. Item 0 is the item without a URL that            *)
(* build_movie guards against.                                             *)
(***************************************************************************)
RawTitleOf(k) ==
  CASE k = 0 -> <<"A">>
    [] k = 1 -> <<"b", " ", "\n", "c">>
    [] k = 2 -> <<"B">>
    [] OTHER -> <<"a">>

Item(k) == [title |-> RawTitleOf(k), url |-> k]

\* a title the page script accepts (two characters after trim()) and
\* _normalize_space empties
BlankTitle == <<"FS", "FS">>

\* the items the page script may return for URL k
ItemChoices(k) == IF k = 2 THEN { Item(k), [title |-> BlankTitle, url |-> k] } ELSE { Item(k) }

RECURSIVE SeqOfSet(_)
\* the members of a set of numbers in ascending order
SeqOfSet(S) ==
  IF S = {} THEN <<>>
  ELSE LET m == CHOOSE x \in S : \A y \in S : x <= y
       IN <<m>> \o SeqOfSet(S \ {m})

CandidateLists ==
  UNION { { l \in [1..Cardinality(S) -> UNION { ItemChoices(k) : k \in S }] : \A i \in DOMAIN l : l[i].url = SeqOfSet(S)[i] }
          : S \in { T \in SUBSET (0..MaxCandidates) : Cardinality(T) <= MaxCandidates } }

\* mutant: every anchor becomes a candidate
SeenValuesAll(found) == found

RECURSIVE SeenValues(_)
\* lines 60-88: `if (!seen.has(u)) seen.set(u, ...)` and
\* Array.from(seen.values()): one item per URL, the first one met, in the
\* order the URLs were first met
SeenValues(found) ==
  IF found = <<>> THEN <<>>
  ELSE LET before == SeenValues(SubSeq(found, 1, Len(found) - 1))
           a == found[Len(found)]
       IN IF \E i \in DOMAIN before : before[i].url = a.url THEN before ELSE Append(before, a)

\* a second anchor of film 1, with another title
OtherAnchor == [title |-> <<"Z", "z">>, url |-> 1]

\* listing pages on which a film has more than one anchor
MaxAnchors == 3

AnchorLists == UNION { [1..k -> { Item(1), OtherAnchor, Item(2) }] : k \in 0..MaxAnchors }

\* what the page evaluations of fetch_description can yield before normalisation
RawDescriptions == { <<>>, <<"\n">>, <<"d", " ", " ", "d">> }

(***************************************************************************)
(* build_movie / fetch_description frames.                                 *)
(***************************************************************************)
NewTask(item) ==
  [ pc |-> IF item.url = 0 THEN "done" ELSE "cache_get",
    cached |-> <<>>,
    getRaised |-> FALSE,
    counted |-> "none",
    raisedAt |-> "none",
    desc |-> <<>>,
    setCalls |-> <<>>,
    setRaised |-> FALSE,
    movie |-> IF item.url = 0 THEN <<Movie(_normalize_space(item.title), 0, <<>>)>> ELSE <<>> ]

TaskIds == DOMAIN tasks

\* mutant: the semaphore admits every task
SemaphoreNeverLocked == FALSE

\* asyncio.Semaphore.locked()
SemaphoreLocked == semaphore = 0

\* mutant: only an entry with a description counts as a hit
IsCacheHitDescriptionOnly(cached) ==
  /\ cached /= <<>>
  /\ Truthy(OrElse(cached[1].description, <<>>))

\* scraper.py lines 163-166: `if cached:` ... `if desc or cached.get("error")`
IsCacheHit(cached) ==
  /\ cached /= <<>>
  /\ \/ Truthy(OrElse(cached[1].description, <<>>))
     \/ Truthy(cached[1].error)

\* mutant: a hit keeps the candidate's title and drops the cached one
HitMovieCandidateTitle(item, cached) ==
  Movie(_normalize_space(item.title), item.url, OrElse(cached[1].description, <<>>))

\* scraper.py lines 164-168: the Movie returned on a hit
HitMovie(item, cached) ==
  LET title == _normalize_space(item.title)
      desc == OrElse(cached[1].description, <<>>)
      cached_title == OrElse(cached[1].title, title)
  IN Movie(OrElse(cached_title, title), item.url, OrElse(desc, <<>>))

\* scraper.py lines 172-197: the value and the TTL handed to _cache_set
CacheValueFor(title, desc, t) ==
  IF Truthy(desc)
  THEN [title |-> title, description |-> desc, error |-> None, fetched_at |-> t, source |-> <<"cineplexx">>]
  ELSE [title |-> title, description |-> None, error |-> <<"not_found">>, fetched_at |-> t, source |-> <<"cineplexx">>]

CacheTtlFor(desc) ==
  IF Truthy(desc) THEN FilmCacheTtlSeconds ELSE CacheNegativeTtlSeconds

\* mutant: _cache_get answers with an entry whatever the port holds
CacheGetResultAlwaysEntry(raised, key) ==
  <<[title |-> <<"Z">>, description |-> <<"d">>, error |-> None, fetched_at |-> 0, source |-> None]>>

\* _cache_get (lines 14-19): the port's answer, or None when it raised
CacheGetResult(raised, key) ==
  IF raised THEN <<>>
  ELSE IF cache = "NullCache" THEN NullCache_get_json(key)
  ELSE get_json(key, now)

\* mutant: _cache_set without its try/except
CacheSetEscapesUncaught(raised) == raised

\* _cache_set (lines 22-26): `except Exception` swallows what set_json
\* raises, so nothing escapes into build_movie
CacheSetEscapes(raised) == FALSE

\* _cache_set (lines 22-26): the store after the call; unchanged when it raised
CacheSetResult(raised, key, value, ttl) ==
  IF raised THEN cacheStore
  ELSE IF cache = "NullCache" THEN NullCache_set_json(key, value, ttl)
  ELSE set_json(key, value, ttl, now)

\* whether a call of the port can raise: the null object's never do
PortRaises(raised) == raised => cache /= "NullCache"

(***************************************************************************)
(* State store values (state.py); the operations follow further below.     *)
(***************************************************************************)
EmptySnapshot == [u \in {} |-> <<>>]

\* no state file at the path (path.exists() is False)
MissingFile == [kind |-> "missing", text |-> <<>>]

\* load_state has not been called
NoLoad == [called |-> FALSE]

\* the state file is not in play
FileIdle ==
  /\ stateFile = MissingFile
  /\ saved = <<>>
  /\ loadResult = NoLoad

\* _TelegramHtmlParser.__init__ (telegram.py lines 51-63)
NewParser ==
  [ title |-> <<>>, description |-> <<>>, posts |-> <<>>,
    in_message |-> FALSE, message_depth |-> 0, in_text |-> FALSE, text_div_depth |-> 0,
    current |-> <<>> ]

\* scrape_telegram_channel is not in play
TelegramIdle ==
  /\ html = <<>>
  /\ shapes = <<>>
  /\ fed = 0
  /\ parser = NewParser
  /\ tgLimit = 0
  /\ tgResult = <<>>

NoCall == [op |-> "none"]

(***************************************************************************)
(* scrape_movies.                                                          *)
(***************************************************************************)
InitScrape ==
  /\ now = 0
  /\ cacheStore \in SeedStores
  /\ limit \in 1..MaxConcurrency
  /\ runNo = 0
  /\ runState = "idle"
  /\ raw = <<>>
  /\ semaphore = limit
  /\ cache_hits = 0
  /\ cache_misses = 0
  /\ film_pages_fetched = 0
  /\ tasks = <<>>
  /\ movies = <<>>
  /\ startedAt = 0
  /\ cache0 = cacheStore
  /\ cache = "Cache"
  /\ anchors = <<>>
  /\ prevWrites = [u \in Urls |-> <<>>]
  /\ snapshot = EmptySnapshot
  /\ events = <<>>
  /\ lastCall = NoCall
  /\ FileIdle
  /\ TelegramIdle

\* the clock advances at any moment, also while a run is in progress
Tick ==
  /\ now < MaxTime
  /\ now' = now + 1
  /\ UNCHANGED <<cacheStore, limit, runNo, runState, raw, semaphore, cache_hits, cache_misses, film_pages_fetched, tasks, movies, startedAt, prevWrites, cache0, cache, anchors>>
  /\ UNCHANGED nonScrapeVars

\* history: what the run that just ended stored per URL
WritesOfRun ==
  [u \in Urls |->
     IF \E i \in TaskIds : raw[i].url = u /\ tasks[i].setCalls /= <<>> /\ ~tasks[i].setRaised
     THEN cacheStore[cache_key_for_url(u)]
     ELSE <<>>]

\* scrape_movies lines 38-91 and 200: counters, the semaphore, the candidate
\* list, and one build_movie coroutine per candidate, each run up to its
\* first await (lines 156-162 touch nothing shared)
StartRun(cands) ==
  /\ runState \in {"idle", "returned", "failed"}
  /\ runNo < MaxRuns
  /\ runNo' = runNo + 1
  /\ runState' = "running"
  /\ anchors' = cands
  /\ raw' = SeenValues(cands)
  /\ semaphore' = limit
  /\ cache_hits' = 0
  /\ cache_misses' = 0
  /\ film_pages_fetched' = 0
  /\ tasks' = [i \in 1..Len(SeenValues(cands)) |-> NewTask(SeenValues(cands)[i])]
  /\ movies' = <<>>
  /\ startedAt' = now
  /\ cache0' = cacheStore
  /\ UNCHANGED <<now, cacheStore, limit, prevWrites, cache>>
  /\ UNCHANGED nonScrapeVars

\* mutant: the miss is not counted
MissesAfterMissUncounted == cache_misses

\* line 170: cache_misses += 1
MissesAfterMiss == cache_misses + 1

\* build_movie lines 162-170: the cache read settles, then hit or miss
CacheGet(i, raised) ==
  /\ runState = "running"
  /\ tasks[i].pc = "cache_get"
  /\ PortRaises(raised)
  /\ LET cached == CacheGetResult(raised, cache_key_for_url(raw[i].url))
         seen == [tasks[i] EXCEPT !.cached = cached, !.getRaised = raised]
     IN IF IsCacheHit(cached)
        THEN /\ cache_hits' = cache_hits + 1
             /\ tasks' = [tasks EXCEPT ![i] = [seen EXCEPT !.pc = "done", !.counted = "hit", !.movie = <<HitMovie(raw[i], cached)>>]]
             /\ UNCHANGED cache_misses
        ELSE /\ cache_misses' = MissesAfterMiss
             /\ tasks' = [tasks EXCEPT ![i] = [seen EXCEPT !.pc = "sem_wait", !.counted = "miss"]]
             /\ UNCHANGED cache_hits
  /\ UNCHANGED <<now, cacheStore, limit, runNo, runState, raw, semaphore, film_pages_fetched, movies, startedAt, prevWrites, cache0, cache, anchors>>
  /\ UNCHANGED nonScrapeVars

\* mutant: entering the guarded section takes no permit
SemaphoreUntouchedOnEnter == semaphore

\* line 95, entering `async with semaphore`: acquire()
SemaphoreAfterEnter == semaphore - 1

\* fetch_description lines 95-97: `async with semaphore` admits the task,
\* which counts the fetch and calls context.new_page()
SemAcquire(i) ==
  /\ runState = "running"
  /\ tasks[i].pc = "sem_wait"
  /\ ~SemaphoreLocked
  /\ semaphore' = SemaphoreAfterEnter
  /\ film_pages_fetched' = film_pages_fetched + 1
  /\ tasks' = [tasks EXCEPT ![i].pc = "fetching"]
  /\ UNCHANGED <<now, cacheStore, limit, runNo, runState, raw, cache_hits, cache_misses, movies, startedAt, prevWrites, cache0, cache, anchors>>
  /\ UNCHANGED nonScrapeVars

\* where an exception of the page leaves fetch_description: new_page()
\* (line 97) stands before the try and close() (line 151) in its finally,
\* so both propagate; one raised inside the try (lines 99-149) is caught
FetchEscapes(openRaised, closeRaised) == openRaised \/ closeRaised

\* the value fetch_description returns (lines 98, 148-149, 152)
FetchResult(text, bodyRaised) == _normalize_space(IF bodyRaised THEN <<>> ELSE text)

\* history: the step of fetch_description that raised
RaisedAt(openRaised, bodyRaised, closeRaised) ==
  IF openRaised THEN "new_page"
  ELSE IF bodyRaised /\ closeRaised THEN "body+close"
  ELSE IF bodyRaised THEN "body"
  ELSE IF closeRaised THEN "close"
  ELSE "none"

\* mutant: the permit is kept when the fetch raises
SemaphoreKeptOnRaise(raised) == IF raised THEN semaphore ELSE semaphore + 1

\* line 95, leaving `async with semaphore`: release(), on return and on raise
SemaphoreAfterExit(raised) == semaphore + 1

\* fetch_description lines 97-152, from new_page() to the return: the page
\* work of one admitted fetch settles (it touches nothing shared), the
\* semaphore is released, and build_movie starts _cache_set (lines 171-173)
FetchSettle(i, openRaised, text, bodyRaised, closeRaised) ==
  /\ runState = "running"
  /\ tasks[i].pc = "fetching"
  /\ semaphore' = SemaphoreAfterExit(FetchEscapes(openRaised, closeRaised))
  /\ tasks' = [tasks EXCEPT ![i] =
       [@ EXCEPT !.pc = IF FetchEscapes(openRaised, closeRaised) THEN "raised" ELSE "cache_set",
                 !.raisedAt = RaisedAt(openRaised, bodyRaised, closeRaised),
                 !.desc = IF FetchEscapes(openRaised, closeRaised) THEN <<>> ELSE FetchResult(text, bodyRaised)]]
  /\ UNCHANGED <<now, cacheStore, limit, runNo, runState, raw, cache_hits, cache_misses, film_pages_fetched, movies, startedAt, prevWrites, cache0, cache, anchors>>
  /\ UNCHANGED nonScrapeVars

\* lines 172-198: the cache write settles and build_movie returns its Movie
CacheSet(i, raised) ==
  /\ runState = "running"
  /\ tasks[i].pc = "cache_set"
  /\ PortRaises(raised)
  /\ LET title == _normalize_space(raw[i].title)
         key == cache_key_for_url(raw[i].url)
         value == CacheValueFor(title, tasks[i].desc, now)
         ttl == CacheTtlFor(tasks[i].desc)
     IN /\ cacheStore' = CacheSetResult(raised, key, value, ttl)
        /\ tasks' = [tasks EXCEPT ![i].pc = IF CacheSetEscapes(raised) THEN "raised" ELSE "done",
                                  ![i].setCalls = Append(tasks[i].setCalls, [key |-> key, value |-> value, ttl |-> ttl]),
                                  ![i].setRaised = raised,
                                  ![i].movie = IF CacheSetEscapes(raised) THEN <<>> ELSE <<Movie(title, raw[i].url, tasks[i].desc)>>]
  /\ UNCHANGED <<now, limit, runNo, runState, raw, semaphore, cache_hits, cache_misses, film_pages_fetched, movies, startedAt, prevWrites, cache0, cache, anchors>>
  /\ UNCHANGED nonScrapeVars

\* lines 201-216: gather returns once every coroutine has returned; filter, sort
GatherReturn ==
  /\ runState = "running"
  /\ \A i \in TaskIds : tasks[i].pc = "done"
  /\ movies' = SortMovies(SelectSeq([i \in TaskIds |-> tasks[i].movie[1]], KeepMovie))
  /\ runState' = "returned"
  /\ tasks' = <<>>
  /\ prevWrites' = WritesOfRun
  /\ UNCHANGED <<now, cacheStore, limit, runNo, raw, semaphore, cache_hits, cache_misses, film_pages_fetched, startedAt, cache0, cache, anchors>>
  /\ UNCHANGED nonScrapeVars

\* line 201: gather (return_exceptions unset) re-raises the first exception
\* of a coroutine; scrape_movies raises and the run is over
GatherRaise ==
  /\ runState = "running"
  /\ \E i \in TaskIds : tasks[i].pc = "raised"
  /\ runState' = "failed"
  /\ tasks' = <<>>
  /\ prevWrites' = WritesOfRun
  /\ UNCHANGED <<now, cacheStore, limit, runNo, raw, semaphore, cache_hits, cache_misses, film_pages_fetched, movies, startedAt, cache0, cache, anchors>>
  /\ UNCHANGED nonScrapeVars

\* one run over any candidate list, every interleaving of its coroutines;
\* the clock stands still
NextScrape ==
  \/ \E cands \in CandidateLists : runNo = 0 /\ StartRun(cands)
  \/ \E i \in TaskIds, raised \in BOOLEAN : CacheGet(i, raised)
  \/ \E i \in TaskIds : SemAcquire(i)
  \/ \E i \in TaskIds, text \in RawDescriptions, openRaised, bodyRaised, closeRaised \in BOOLEAN : FetchSettle(i, openRaised, text, bodyRaised, closeRaised)
  \/ \E i \in TaskIds, raised \in BOOLEAN : CacheSet(i, raised)
  \/ GatherReturn
  \/ GatherRaise

SpecScrape == InitScrape /\ [][NextScrape]_vars

\* scrape_movies handed the null-object cache
InitNullCache ==
  /\ now = 0
  /\ cacheStore = [k \in CacheKeys |-> <<>>]
  /\ limit \in 1..MaxConcurrency
  /\ runNo = 0
  /\ runState = "idle"
  /\ raw = <<>>
  /\ semaphore = limit
  /\ cache_hits = 0
  /\ cache_misses = 0
  /\ film_pages_fetched = 0
  /\ tasks = <<>>
  /\ movies = <<>>
  /\ startedAt = 0
  /\ cache0 = cacheStore
  /\ cache = "NullCache"
  /\ anchors = <<>>
  /\ prevWrites = [u \in Urls |-> <<>>]
  /\ snapshot = EmptySnapshot
  /\ events = <<>>
  /\ lastCall = NoCall
  /\ FileIdle
  /\ TelegramIdle

SpecNullCache == InitNullCache /\ [][NextScrape]_vars

\* one run over a listing page whose anchors may repeat a film
NextPage ==
  \/ \E found \in AnchorLists : runNo = 0 /\ StartRun(found)
  \/ \E i \in TaskIds, raised \in BOOLEAN : CacheGet(i, raised)
  \/ \E i \in TaskIds : SemAcquire(i)
  \/ \E i \in TaskIds, text \in RawDescriptions, openRaised, bodyRaised, closeRaised \in BOOLEAN : FetchSettle(i, openRaised, text, bodyRaised, closeRaised)
  \/ \E i \in TaskIds, raised \in BOOLEAN : CacheSet(i, raised)
  \/ GatherReturn
  \/ GatherRaise

SpecPage == InitScrape /\ [][NextPage]_vars

\* successive runs over one film URL sharing the cache, with the clock running
NextCacheTtl ==
  \/ Tick
  \/ StartRun(<<Item(1)>>)
  \/ \E i \in TaskIds, raised \in BOOLEAN : CacheGet(i, raised)
  \/ \E i \in TaskIds : SemAcquire(i)
  \/ \E i \in TaskIds, text \in RawDescriptions, openRaised, bodyRaised, closeRaised \in BOOLEAN : FetchSettle(i, openRaised, text, bodyRaised, closeRaised)
  \/ \E i \in TaskIds, raised \in BOOLEAN : CacheSet(i, raised)
  \/ GatherReturn
  \/ GatherRaise

SpecCacheTtl == InitScrape /\ [][NextCacheTtl]_vars

(***************************************************************************)
(* The state store (state.py). A Movie here carries the two fields         *)
(* state.py reads and writes, title and url.                               *)
(***************************************************************************)
StoreUrls == 1..MaxUrl

StoreTitles == { <<"a">>, <<"b">> }

StoreMovie(title, url) == [title |-> title, url |-> url]

StoreMovies == { StoreMovie(t, u) : t \in StoreTitles, u \in StoreUrls }

\* lists of at most n members of S
ListsUpTo(S, n) == UNION { [1..k -> S] : k \in 0..n }

Snapshots == UNION { [D -> StoreTitles] : D \in SUBSET StoreUrls }

\* models.Event(...).__dict__
Event(type, m, ctx) ==
  [type |-> type, title |-> m.title, url |-> m.url, ts |-> ctx.ts, location |-> ctx.location, date |-> ctx.date]

\* the ts_iso / location / date arguments of one run
Contexts == { [ts |-> "ts1", location |-> "0", date |-> "d1"] }

\* events of earlier runs, all distinct
OldEvent(k) ==
  [type |-> IF k % 2 = 1 THEN "add" ELSE "remove", title |-> <<"a">>, url |-> k, ts |-> "ts0", location |-> "0", date |-> "d0"]

OldLogs == { [i \in 1..n |-> OldEvent(i)] : n \in 0..MaxLog }

\* compute_diff line 52: {m.url: m.title for m in current}; a later record
\* of the same URL replaces an earlier one
UrlTitleMap(current) ==
  [u \in { current[i].url : i \in DOMAIN current } |->
     current[CHOOSE i \in DOMAIN current : current[i].url = u /\ \A j \in DOMAIN current : current[j].url = u => j <= i].title]

\* mutant: the URLs in descending order
SortedUrlsDescending(S) == Reverse(SeqOfSet(S))

\* sorted(...) of a set of URLs
SortedUrls(S) == SeqOfSet(S)

\* compute_diff lines 51-58
compute_diff(prev_snapshot, current) ==
  LET cur_map == UrlTitleMap(current)
      prev_urls == DOMAIN prev_snapshot
      cur_urls == DOMAIN cur_map
      addedUrls == SortedUrls(cur_urls \ prev_urls)
      removedUrls == SortedUrls(prev_urls \ cur_urls)
  IN [ added |-> [i \in 1..Len(addedUrls) |-> StoreMovie(cur_map[addedUrls[i]], addedUrls[i])],
       removed |-> [i \in 1..Len(removedUrls) |-> StoreMovie(prev_snapshot[removedUrls[i]], removedUrls[i])] ]

\* mutant: the two loops swapped
AppendedLogRemovesFirst(log, added, removed, ctx) ==
  log \o [i \in 1..Len(removed) |-> Event("remove", removed[i], ctx)]
      \o [i \in 1..Len(added) |-> Event("add", added[i], ctx)]

\* append_events lines 71-74: the log after both loops
AppendedLog(log, added, removed, ctx) ==
  log \o [i \in 1..Len(added) |-> Event("add", added[i], ctx)]
      \o [i \in 1..Len(removed) |-> Event("remove", removed[i], ctx)]

\* mutant: the slice keeps the oldest entries, state.events[:max_events_in_state]
TrimLogKeepOldest(log, max_events_in_state) ==
  IF max_events_in_state > 0 /\ Len(log) > max_events_in_state
  THEN SubSeq(log, 1, max_events_in_state)
  ELSE log

\* append_events lines 75-78: state.events[-max_events_in_state:]
TrimLog(log, max_events_in_state) ==
  IF max_events_in_state > 0 /\ Len(log) > max_events_in_state
  THEN SubSeq(log, Len(log) - max_events_in_state + 1, Len(log))
  ELSE log

\* append_events lines 60-85
append_events(log, added, removed, ctx, max_events_in_state) ==
  TrimLog(AppendedLog(log, added, removed, ctx), max_events_in_state)

\* mutant: the current mapping merged into the previous snapshot
update_snapshot_merged(current) ==
  [u \in DOMAIN snapshot \cup DOMAIN UrlTitleMap(current) |->
     IF u \in DOMAIN UrlTitleMap(current) THEN UrlTitleMap(current)[u] ELSE snapshot[u]]

\* update_snapshot lines 87-88
update_snapshot(current) == UrlTitleMap(current)

\* the State a call starts from: any snapshot, any earlier log
InitStore ==
  /\ now = 0
  /\ cacheStore = [k \in CacheKeys |-> <<>>]
  /\ limit = 1
  /\ runNo = 0
  /\ runState = "idle"
  /\ raw = <<>>
  /\ semaphore = 1
  /\ cache_hits = 0
  /\ cache_misses = 0
  /\ film_pages_fetched = 0
  /\ tasks = <<>>
  /\ movies = <<>>
  /\ startedAt = 0
  /\ cache0 = cacheStore
  /\ cache = "Cache"
  /\ anchors = <<>>
  /\ prevWrites = [u \in Urls |-> <<>>]
  /\ snapshot \in Snapshots
  /\ events \in OldLogs
  /\ lastCall = NoCall
  /\ FileIdle
  /\ TelegramIdle

\* compute_diff(state.snapshot, current): pure, the State is not touched
ComputeDiff(current) ==
  /\ lastCall' = [op |-> "compute_diff", prev_snapshot |-> snapshot, current |-> current, result |-> compute_diff(snapshot, current)]
  /\ UNCHANGED <<snapshot, events>>
  /\ UNCHANGED nonStoreVars

\* append_events(state, added=..., removed=..., ...) on any two lists
AppendEvents(added, removed, ctx, max_events_in_state) ==
  /\ events' = append_events(events, added, removed, ctx, max_events_in_state)
  /\ lastCall' = [op |-> "append_events", log |-> events, added |-> added, removed |-> removed, ctx |-> ctx, max_events_in_state |-> max_events_in_state, from_diff |-> FALSE]
  /\ UNCHANGED snapshot
  /\ UNCHANGED nonStoreVars

\* append_events on the two lists compute_diff(state.snapshot, current) returned
AppendDiff(current, ctx, max_events_in_state) ==
  /\ LET d == compute_diff(snapshot, current)
     IN /\ events' = append_events(events, d.added, d.removed, ctx, max_events_in_state)
        /\ lastCall' = [op |-> "append_events", log |-> events, added |-> d.added, removed |-> d.removed, ctx |-> ctx, max_events_in_state |-> max_events_in_state, from_diff |-> TRUE]
  /\ UNCHANGED snapshot
  /\ UNCHANGED nonStoreVars

\* update_snapshot(state, current)
UpdateSnapshot(current) ==
  /\ snapshot' = update_snapshot(current)
  /\ lastCall' = [op |-> "update_snapshot", prev_snapshot |-> snapshot, log |-> events, current |-> current]
  /\ UNCHANGED events
  /\ UNCHANGED nonStoreVars

\* the lists handed to append_events directly: any order, repeats allowed
AppendInputs == ListsUpTo({ StoreMovie(<<"a">>, 2), StoreMovie(<<"b">>, 1) }, MaxCurrent)

MaxEventsChoices == (-1)..MaxEvents

\* one call per behaviour, on any State and any arguments
NextStore ==
  \/ lastCall = NoCall /\ \E current \in ListsUpTo(StoreMovies, MaxCurrent) : ComputeDiff(current)
  \/ lastCall = NoCall /\ \E added \in AppendInputs, removed \in AppendInputs, ctx \in Contexts, m \in MaxEventsChoices : AppendEvents(added, removed, ctx, m)
  \/ lastCall = NoCall /\ \E current \in ListsUpTo(StoreMovies, MaxCurrent), ctx \in Contexts, m \in MaxEventsChoices : AppendDiff(current, ctx, m)
  \/ lastCall = NoCall /\ \E current \in ListsUpTo(StoreMovies, MaxCurrent) : UpdateSnapshot(current)

SpecStore == InitStore /\ [][NextStore]_vars

(***************************************************************************)
(* Successive runs over one State: each run hands its record list to       *)
(* compute_diff, the two lists to append_events, and the record list to    *)
(* update_snapshot. The first run starts from the empty State.             *)
(***************************************************************************)
\* the records a run may hold: two films, the first under two titles
RunMovies == { StoreMovie(<<"a">>, 1), StoreMovie(<<"b">>, 1), StoreMovie(<<"a">>, 2) }

\* State() (state.py lines 9-14): no snapshot entry, no event
InitRuns ==
  /\ now = 0
  /\ cacheStore = [k \in CacheKeys |-> <<>>]
  /\ limit = 1
  /\ runNo = 0
  /\ runState = "idle"
  /\ raw = <<>>
  /\ semaphore = 1
  /\ cache_hits = 0
  /\ cache_misses = 0
  /\ film_pages_fetched = 0
  /\ tasks = <<>>
  /\ movies = <<>>
  /\ startedAt = 0
  /\ cache0 = cacheStore
  /\ cache = "Cache"
  /\ anchors = <<>>
  /\ prevWrites = [u \in Urls |-> <<>>]
  /\ snapshot = EmptySnapshot
  /\ events = <<>>
  /\ lastCall = NoCall
  /\ FileIdle
  /\ TelegramIdle

\* one run: compute_diff(state.snapshot, current), append_events with its
\* two lists, update_snapshot(state, current)
Run(current, ctx, max_events_in_state) ==
  /\ runNo < MaxRuns
  /\ runNo' = runNo + 1
  /\ LET d == compute_diff(snapshot, current)
     IN events' = append_events(events, d.added, d.removed, ctx, max_events_in_state)
  /\ snapshot' = update_snapshot(current)
  /\ lastCall' = [op |-> "run", current |-> current, max_events_in_state |-> max_events_in_state]
  /\ UNCHANGED <<now, cacheStore, limit, runState, raw, semaphore, cache_hits, cache_misses, film_pages_fetched, tasks, movies, startedAt, prevWrites, cache0, cache, anchors>>
  /\ UNCHANGED <<fileVars, telegramVars>>

NextRuns ==
  \E current \in ListsUpTo(RunMovies, MaxCurrent), ctx \in Contexts, m \in MaxEventsChoices : Run(current, ctx, m)

SpecRuns == InitRuns /\ [][NextRuns]_vars

(***************************************************************************)
(* The state file (state.py, load_state / save_state).                     *)
(*                                                                         *)
(* A Python value is tagged with its type: dict (its items in insertion    *)
(* order), list, str, int, None. A str is one of the three forms strings   *)
(* take in this module: a text, a film URL, a name; "" is the same in all  *)
(* three. A JSON text is the sequence of its tokens; a string token        *)
(* stands for the quoted literal of its content.                           *)
(***************************************************************************)
EmptyStr == [text |-> <<>>, url |-> 0, name |-> ""]

StrOfText(t) == [text |-> t, url |-> 0, name |-> ""]

StrOfUrl(u) == [text |-> <<>>, url |-> u, name |-> ""]

StrOfName(a) == [text |-> <<>>, url |-> 0, name |-> a]

PyNone == [kind |-> "none", val |-> <<>>, str |-> EmptyStr, int |-> 0]

PyStr(s) == [kind |-> "str", val |-> <<>>, str |-> s, int |-> 0]

PyInt(n) == [kind |-> "int", val |-> <<>>, str |-> EmptyStr, int |-> n]

PyList(items) == [kind |-> "list", val |-> items, str |-> EmptyStr, int |-> 0]

PyDict(items) == [kind |-> "dict", val |-> items, str |-> EmptyStr, int |-> 0]

DictItem(key, value) == [key |-> key, value |-> value]

\* d[key] = value on a dict: a present key keeps its place
DictSet(items, key, value) ==
  IF \E i \in DOMAIN items : items[i].key = key
  THEN [i \in DOMAIN items |-> IF items[i].key = key THEN DictItem(key, value) ELSE items[i]]
  ELSE Append(items, DictItem(key, value))

DictHas(d, key) == \E i \in DOMAIN d.val : d.val[i].key = key

\* d.get(key, default)
DictGet(d, key, default) ==
  IF DictHas(d, key)
  THEN d.val[CHOOSE i \in DOMAIN d.val : d.val[i].key = key].value
  ELSE default

\* truth value of a Python value
PyTruthy(v) ==
  CASE v.kind = "none" -> FALSE
    [] v.kind = "int" -> v.int /= 0
    [] v.kind = "str" -> v.str /= EmptyStr
    [] OTHER -> Len(v.val) > 0

\* mutant: the default replaces whatever was read
PyOrDefault(v, default) == default

\* `v or default`
PyOr(v, default) == IF PyTruthy(v) THEN v ELSE default

\* punctuation and null, a string literal, a number
Tok(t) == [t |-> t, str |-> EmptyStr, int |-> 0]

StrTok(s) == [t |-> "str", str |-> s, int |-> 0]

NumTok(n) == [t |-> "num", str |-> EmptyStr, int |-> n]

RECURSIVE dumps(_)
RECURSIVE DumpMembers(_, _)
RECURSIVE DumpItems(_, _)
\* json.dumps: the members of a dict in its order, the items of a list in
\* theirs
dumps(v) ==
  CASE v.kind = "dict" -> <<Tok("{")>> \o DumpMembers(v.val, 1) \o <<Tok("}")>>
    [] v.kind = "list" -> <<Tok("[")>> \o DumpItems(v.val, 1) \o <<Tok("]")>>
    [] v.kind = "str" -> <<StrTok(v.str)>>
    [] v.kind = "int" -> <<NumTok(v.int)>>
    [] OTHER -> <<Tok("null")>>

DumpMembers(items, k) ==
  IF k > Len(items)
  THEN <<>>
  ELSE (IF k > 1 THEN <<Tok(",")>> ELSE <<>>)
         \o <<StrTok(items[k].key), Tok(":")>>
         \o dumps(items[k].value)
         \o DumpMembers(items, k + 1)

DumpItems(items, k) ==
  IF k > Len(items)
  THEN <<>>
  ELSE (IF k > 1 THEN <<Tok(",")>> ELSE <<>>) \o dumps(items[k]) \o DumpItems(items, k + 1)

ParseFail == [ok |-> FALSE, val |-> PyNone, next |-> 0]

ParseOk(v, next) == [ok |-> TRUE, val |-> v, next |-> next]

TokIs(toks, i, t) == i <= Len(toks) /\ toks[i].t = t

RECURSIVE ParseValue(_, _)
RECURSIVE ParseMembers(_, _, _)
RECURSIVE ParseItems(_, _, _)
\* json.loads, one value starting at token i
ParseValue(toks, i) ==
  IF i > Len(toks)
  THEN ParseFail
  ELSE CASE toks[i].t = "str" -> ParseOk(PyStr(toks[i].str), i + 1)
         [] toks[i].t = "num" -> ParseOk(PyInt(toks[i].int), i + 1)
         [] toks[i].t = "null" -> ParseOk(PyNone, i + 1)
         [] toks[i].t = "[" ->
              IF TokIs(toks, i + 1, "]") THEN ParseOk(PyList(<<>>), i + 2) ELSE ParseItems(toks, i + 1, <<>>)
         [] toks[i].t = "{" ->
              IF TokIs(toks, i + 1, "}") THEN ParseOk(PyDict(<<>>), i + 2) ELSE ParseMembers(toks, i + 1, <<>>)
         [] OTHER -> ParseFail

\* the members of an object; a repeated name keeps the last value
ParseMembers(toks, i, acc) ==
  IF ~(TokIs(toks, i, "str") /\ TokIs(toks, i + 1, ":"))
  THEN ParseFail
  ELSE LET r == ParseValue(toks, i + 2)
       IN IF ~r.ok
          THEN ParseFail
          ELSE LET items == DictSet(acc, toks[i].str, r.val)
               IN IF TokIs(toks, r.next, ",") THEN ParseMembers(toks, r.next + 1, items)
                  ELSE IF TokIs(toks, r.next, "}") THEN ParseOk(PyDict(items), r.next + 1)
                  ELSE ParseFail

ParseItems(toks, i, acc) ==
  LET r == ParseValue(toks, i)
  IN IF ~r.ok
     THEN ParseFail
     ELSE IF TokIs(toks, r.next, ",") THEN ParseItems(toks, r.next + 1, Append(acc, r.val))
          ELSE IF TokIs(toks, r.next, "]") THEN ParseOk(PyList(Append(acc, r.val)), r.next + 1)
          ELSE ParseFail

\* json.loads: one value and nothing after it, otherwise JSONDecodeError
loads(toks) ==
  LET r == ParseValue(toks, 1)
  IN IF r.ok /\ r.next = Len(toks) + 1 THEN r ELSE ParseFail

\* State.snapshot as a Python dict
PySnapshot(snap) ==
  LET us == SeqOfSet(DOMAIN snap)
  IN PyDict([i \in 1..Len(us) |-> DictItem(StrOfUrl(us[i]), PyStr(StrOfText(snap[us[i]])))])

\* an entry of State.events, Event(...).__dict__
PyEvent(e) ==
  PyDict(<< DictItem(StrOfName("type"), PyStr(StrOfName(e.type))),
            DictItem(StrOfName("title"), PyStr(StrOfText(e.title))),
            DictItem(StrOfName("url"), PyStr(StrOfUrl(e.url))),
            DictItem(StrOfName("ts"), PyStr(StrOfName(e.ts))),
            DictItem(StrOfName("location"), PyStr(StrOfName(e.location))),
            DictItem(StrOfName("date"), PyStr(StrOfName(e.date))) >>)

PyEvents(log) == PyList([i \in 1..Len(log) |-> PyEvent(log[i])])

TextFile(toks) == [kind |-> "text", text |-> toks]

\* path.read_text raises (a directory, no permission, bytes that are not UTF-8)
UnreadableFile == [kind |-> "unreadable", text |-> <<>>]

\* save_state lines 38-42: the file written
save_state(snap, log) ==
  TextFile(dumps(PyDict(<< DictItem(StrOfName("snapshot"), PySnapshot(snap)), DictItem(StrOfName("events"), PyEvents(log)) >>)))

\* mutant: only a JSON syntax error is caught
LoadCatchesJsonOnly(exc) == exc = "JSONDecodeError"

\* load_state line 34: `except Exception`
LoadCatches(exc) == TRUE

LoadReturned(snap, evs) == [raised |-> FALSE, exc |-> "none", snapshot |-> snap, events |-> evs]

\* load_state lines 34-36: the exception is logged and the empty State returned
LoadFailed(exc) ==
  IF LoadCatches(exc)
  THEN [raised |-> FALSE, exc |-> exc, snapshot |-> PyDict(<<>>), events |-> PyList(<<>>)]
  ELSE [raised |-> TRUE, exc |-> exc, snapshot |-> PyNone, events |-> PyNone]

\* load_state lines 16-36
load_state(file) ==
  IF file.kind = "missing" THEN LoadReturned(PyDict(<<>>), PyList(<<>>))
  ELSE IF file.kind = "unreadable" THEN LoadFailed("OSError")
  ELSE LET r == loads(file.text)
       IN IF ~r.ok THEN LoadFailed("JSONDecodeError")
          ELSE IF r.val.kind /= "dict" THEN LoadFailed("AttributeError")
          ELSE LET snap == PyOr(DictGet(r.val, StrOfName("snapshot"), PyDict(<<>>)), PyDict(<<>>))
                   evs == PyOr(DictGet(r.val, StrOfName("events"), PyList(<<>>)), PyList(<<>>))
               IN IF snap.kind = "int" \/ evs.kind = "int"
                  THEN LoadFailed("TypeError")
                  ELSE LoadReturned(snap, evs)

\* what another writer, a crash or an editor may have left at the path
ForeignFiles ==
  << MissingFile,
     UnreadableFile,
     TextFile(<<>>),
     TextFile(<<Tok("{")>>),
     TextFile(<<Tok("["), Tok("]")>>),
     TextFile(<<Tok("null")>>),
     TextFile(<<StrTok(StrOfText(<<"a">>))>>),
     TextFile(<<NumTok(1)>>),
     TextFile(<<Tok("{"), Tok("}")>>),
     TextFile(<<Tok("{"), StrTok(StrOfName("snapshot")), Tok(":"), Tok("null"), Tok(","),
                StrTok(StrOfName("events")), Tok(":"), Tok("null"), Tok("}")>>),
     TextFile(<<Tok("{"), StrTok(StrOfName("snapshot")), Tok(":"), NumTok(1), Tok("}")>>),
     TextFile(<<Tok("{"), StrTok(StrOfName("events")), Tok(":"), StrTok(StrOfText(<<"a">>)), Tok(","),
                StrTok(StrOfName("events")), Tok(":"), Tok("["), StrTok(StrOfText(<<"a">>)), Tok(","), NumTok(0), Tok("]"), Tok("}")>>),
     TextFile(<<Tok("{"), Tok("}"), Tok("}")>>),
     TextFile(<<Tok("?")>>) >>

\* the in-memory State of a run, no file yet
InitFile ==
  /\ now = 0
  /\ cacheStore = [k \in CacheKeys |-> <<>>]
  /\ limit = 1
  /\ runNo = 0
  /\ runState = "idle"
  /\ raw = <<>>
  /\ semaphore = 1
  /\ cache_hits = 0
  /\ cache_misses = 0
  /\ film_pages_fetched = 0
  /\ tasks = <<>>
  /\ movies = <<>>
  /\ startedAt = 0
  /\ cache0 = cacheStore
  /\ cache = "Cache"
  /\ anchors = <<>>
  /\ prevWrites = [u \in Urls |-> <<>>]
  /\ snapshot \in Snapshots
  /\ events \in OldLogs
  /\ lastCall = NoCall
  /\ FileIdle
  /\ TelegramIdle

\* save_state(path, state)
SaveState ==
  /\ stateFile' = save_state(snapshot, events)
  /\ saved' = <<[snapshot |-> snapshot, events |-> events]>>
  /\ UNCHANGED loadResult
  /\ UNCHANGED nonFileVars

\* load_state(path)
LoadState ==
  /\ loadResult' = [called |-> TRUE, file |-> stateFile, fromSaved |-> saved, result |-> load_state(stateFile)]
  /\ UNCHANGED <<stateFile, saved>>
  /\ UNCHANGED nonFileVars

\* something other than save_state changes the file
ForeignWrite(k) ==
  /\ stateFile /= ForeignFiles[k]
  /\ stateFile' = ForeignFiles[k]
  /\ saved' = <<>>
  /\ UNCHANGED loadResult
  /\ UNCHANGED nonFileVars

NextFile ==
  \/ SaveState
  \/ LoadState
  \/ \E k \in DOMAIN ForeignFiles : ForeignWrite(k)

SpecFile == InitFile /\ [][NextFile]_vars

(***************************************************************************)
(* The Telegram channel scraper (telegram.py).                             *)
(*                                                                         *)
(* A str is a sequence of lexemes; the characters the code looks for       *)
(* (whitespace, "/", quotes, parentheses, "url(") are lexemes of their     *)
(* own wherever they occur. An attribute that is absent, None or "" is     *)
(* <<>>: the code reads every attribute through `or ""`, a truth test or   *)
(* an equality. The page is the sequence of calls HTMLParser.feed makes:   *)
(* start tags with their attributes, end tags, text data; <x ... /> is a   *)
(* start tag followed by its end tag.                                      *)
(***************************************************************************)
TitleLimit == 120

TitleKept == 117

Find(s, x) == IF \E i \in DOMAIN s : s[i] = x THEN CHOOSE i \in DOMAIN s : s[i] = x /\ \A j \in 1..(i - 1) : s[j] /= x ELSE 0

StartsWith(s, prefix) == Len(s) >= Len(prefix) /\ SubSeq(s, 1, Len(prefix)) = prefix

RECURSIVE Join(_, _)
\* sep.join(parts)
Join(parts, sep) ==
  IF parts = <<>> THEN <<>>
  ELSE IF Len(parts) = 1 THEN parts[1]
  ELSE parts[1] \o sep \o Join(Tail(parts), sep)

RECURSIVE _dedupe(_)
\* telegram.py lines 32-40: first occurrences, in order
_dedupe(items) ==
  IF items = <<>> THEN <<>>
  ELSE LET init == _dedupe(SubSeq(items, 1, Len(items) - 1))
           last == items[Len(items)]
       IN IF \E i \in DOMAIN init : init[i] = last THEN init ELSE Append(init, last)

RECURSIVE SplitLines(_)
\* str.split("\n")
SplitLines(s) ==
  IF Find(s, "\n") = 0 THEN <<s>>
  ELSE <<SubSeq(s, 1, Find(s, "\n") - 1)>> \o SplitLines(SubSeq(s, Find(s, "\n") + 1, Len(s)))

IsNotCr(c) == c /= "\r"

IsNotEmpty(line) == line /= <<>>

\* telegram.py lines 43-47
_normalize_text(text) ==
  LET lines == SplitLines(SelectSeq(text, IsNotCr))
      stripped == [i \in DOMAIN lines |-> Strip(lines[i])]
      collapsed == [i \in DOMAIN stripped |-> Strip(CollapseSpace(stripped[i]))]
  IN Join(SelectSeq(collapsed, IsNotEmpty), <<"\n">>)

IsQuote(c) == c \in {"'", "\""}

RECURSIVE DropLeadingQuotes(_)
DropLeadingQuotes(s) ==
  IF s /= <<>> /\ IsQuote(Head(s)) THEN DropLeadingQuotes(Tail(s)) ELSE s

\* str.strip("'\"")
StripQuotes(s) == Reverse(DropLeadingQuotes(Reverse(DropLeadingQuotes(s))))

\* telegram.py lines 65-79
_extract_bg_image(style) ==
  IF Find(style, "background-image") = 0 THEN <<>>
  ELSE IF Find(style, "url(") = 0 THEN <<>>
  ELSE LET raw0 == Strip(SubSeq(style, Find(style, "url(") + 1, Len(style)))
           raw1 == IF raw0 /= <<>> /\ IsQuote(raw0[1]) THEN Tail(raw0) ELSE raw0
           raw2 == IF Find(raw1, ")") /= 0 THEN SubSeq(raw1, 1, Find(raw1, ")") - 1) ELSE raw1
       IN StripQuotes(Strip(raw2))

\* `name in cls.split()`: the class attribute is the sequence of its tokens
HasClassToken(cls, name) == \E i \in DOMAIN cls : cls[i] = name

\* class names of the widget of which another is a proper prefix
ProperSubstrings == { <<"tgme_widget_message_link_preview", "tgme_widget_message_link_preview_title">> }

\* `name in cls`: a substring test on the whole attribute
ClsContains(cls, name) ==
  \E i \in DOMAIN cls : cls[i] = name \/ <<name, cls[i]>> \in ProperSubstrings

\* telegram.py lines 98-104
NewRecord(post) == [post_id |-> post, published |-> <<>>, text_parts |-> <<>>, links |-> <<>>, media |-> <<>>]

MediaEntry(url, kind) == [url |-> url, kind |-> kind]

\* self._current["media"].append({...})
AddMedia(p, url, kind) ==
  [p EXCEPT !.current = <<[p.current[1] EXCEPT !.media = Append(@, MediaEntry(url, kind))]>>]

\* handle_starttag lines 87-93
HandleMeta(p, tag, a) ==
  IF tag /= "meta" THEN p
  ELSE IF a.property = <<"og:title">> /\ a.content /= <<>> THEN [p EXCEPT !.title = a.content]
  ELSE IF a.property = <<"og:description">> /\ a.content /= <<>> THEN [p EXCEPT !.description = a.content]
  ELSE p

\* handle_starttag lines 107-123: depth counters, <br>, <time>
HandleDepthBrTime(p, tag, a) ==
  LET p3 == IF p.in_message /\ tag = "div"
            THEN IF HasClassToken(a.class, "js-message_text")
                 THEN [p EXCEPT !.message_depth = @ + 1, !.in_text = TRUE, !.text_div_depth = 1]
                 ELSE [p EXCEPT !.message_depth = @ + 1]
            ELSE p
      p4 == IF p3.in_text /\ tag = "div" THEN [p3 EXCEPT !.text_div_depth = @ + 1] ELSE p3
      p5 == IF p4.in_text /\ tag = "br" /\ p4.current /= <<>>
            THEN [p4 EXCEPT !.current = <<[p4.current[1] EXCEPT !.text_parts = Append(@, <<"\n">>)]>>]
            ELSE p4
  IN IF p5.in_message /\ tag = "time" /\ a.datetime /= <<>> /\ p5.current /= <<>>
     THEN [p5 EXCEPT !.current = <<[p5.current[1] EXCEPT !.published = a.datetime]>>]
     ELSE p5

\* handle_starttag lines 138-151, reached when lines 125-136 did not return
HandleImagesVideo(p, tag, a) ==
  LET p8 == IF p.in_message /\ tag = "a" /\ ClsContains(a.class, "tgme_widget_message_photo_wrap")
               /\ _extract_bg_image(a.style) /= <<>> /\ p.current /= <<>>
            THEN AddMedia(p, _extract_bg_image(a.style), "image")
            ELSE p
      p9 == IF p8.in_message /\ tag = "i" /\ ClsContains(a.class, "tgme_widget_message_video_thumb")
               /\ _extract_bg_image(a.style) /= <<>> /\ p8.current /= <<>>
            THEN AddMedia(p8, _extract_bg_image(a.style), "image")
            ELSE p8
  IN IF p9.in_message /\ tag = "video" /\ a.src /= <<>> /\ p9.current /= <<>>
     THEN AddMedia(p9, a.src, "video")
     ELSE p9

\* handle_starttag lines 81-151
handle_starttag(p, tag, a) ==
  LET p1 == HandleMeta(p, tag, a)
  IN IF tag = "div" /\ HasClassToken(a.class, "tgme_widget_message")
     THEN [p1 EXCEPT !.in_message = TRUE, !.message_depth = 1, !.current = <<NewRecord(a.post)>>]
     ELSE LET p6 == HandleDepthBrTime(p1, tag, a)
          IN IF p6.in_message /\ tag = "a"
             THEN IF a.href = <<>> \/ p6.current = <<>> THEN p6
                  ELSE IF ClsContains(a.class, "tgme_widget_message_photo_wrap") \/ ClsContains(a.class, "tgme_widget_message_video_player")
                       THEN AddMedia(p6, a.href, "media")
                  ELSE IF ClsContains(a.class, "tgme_widget_message_link_preview")
                       THEN AddMedia(p6, a.href, "link")
                  ELSE HandleImagesVideo(
                         IF p6.in_text
                         THEN [p6 EXCEPT !.current = <<[p6.current[1] EXCEPT !.links = Append(@, a.href)]>>]
                         ELSE p6, tag, a)
             ELSE HandleImagesVideo(p6, tag, a)

\* mutant: handle_endtag without the clamp at zero
handle_endtag_unclamped(p, tag) ==
  LET p1 == IF p.in_text /\ tag = "div" THEN [p EXCEPT !.text_div_depth = @ - 1] ELSE p
  IN IF p1.in_message /\ tag = "div" THEN [p1 EXCEPT !.message_depth = @ - 1] ELSE p1

\* handle_endtag lines 153-167
handle_endtag(p, tag) ==
  LET p1 == IF p.in_text /\ tag = "div"
            THEN IF p.text_div_depth - 1 <= 0
                 THEN [p EXCEPT !.in_text = FALSE, !.text_div_depth = 0]
                 ELSE [p EXCEPT !.text_div_depth = @ - 1]
            ELSE p
  IN IF p1.in_message /\ tag = "div"
     THEN IF p1.message_depth - 1 <= 0
          THEN [p1 EXCEPT !.in_message = FALSE, !.message_depth = 0,
                          !.posts = IF p1.current /= <<>> THEN Append(@, p1.current[1]) ELSE @,
                          !.current = <<>>]
          ELSE [p1 EXCEPT !.message_depth = @ - 1]
     ELSE p1

\* handle_data lines 169-171
handle_data(p, data) ==
  IF p.in_text /\ p.current /= <<>>
  THEN [p EXCEPT !.current = <<[p.current[1] EXCEPT !.text_parts = Append(@, data)]>>]
  ELSE p

\* urljoin("https://t.me/", l) for an l that starts with "/"
urljoin(l) ==
  IF StartsWith(l, <<"/", "/">>) THEN <<"https:">> \o l ELSE <<"https:", "/", "/", "t.me">> \o l

\* lines 200-212: site-relative, then protocol-relative URLs made absolute
AbsoluteUrl(l) ==
  LET l1 == IF StartsWith(l, <<"/">>) THEN urljoin(l) ELSE l
  IN IF StartsWith(l1, <<"/", "/">>) THEN <<"https:">> \o l1 ELSE l1

\* urlparse(file_url).path
UrlPath(u) ==
  IF Len(u) >= 3 /\ u[2] = "/" /\ u[3] = "/" THEN SubSeq(u, 5, Len(u)) ELSE u

RECURSIVE LastSegment(_)
\* path.rsplit("/", 1)[-1]
LastSegment(path) ==
  IF Find(path, "/") = 0 THEN path ELSE LastSegment(SubSeq(path, Find(path, "/") + 1, Len(path)))

\* the URLs of the media entries of one kind that have a URL
MediaUrls(media, kind) ==
  LET IsKind(m) == m.kind = kind /\ m.url /= <<>>
      sel == SelectSeq(media, IsKind)
  IN [i \in DOMAIN sel |-> sel[i].url]

\* mutant: only the identifier is required
HasIdAndTimeIdOnly(post_id, published) == post_id /= <<>>

\* line 195: `if not post_id or not published: continue`
HasIdAndTime(post_id, published) == post_id /= <<>> /\ published /= <<>>

\* lines 197-256: the TelegramPost built from a raw record
TelegramPost(rec) ==
  LET text == _normalize_text(Join(rec.text_parts, <<>>))
      links == [i \in DOMAIN _dedupe(rec.links) |-> AbsoluteUrl(_dedupe(rec.links)[i])]
      media_items == [i \in DOMAIN rec.media |-> MediaEntry(AbsoluteUrl(rec.media[i].url), rec.media[i].kind)]
      extra_links == _dedupe(links \o MediaUrls(media_items, "link"))
      desc1 == IF extra_links /= <<>>
               THEN (IF text /= <<>> THEN text \o <<"\n", "\n">> ELSE <<>>) \o Join(extra_links, <<"\n">>)
               ELSE text
      image_urls == _dedupe(MediaUrls(media_items, "image"))
      file_urls == _dedupe(MediaUrls(media_items, "video"))
      file_labels == [i \in DOMAIN file_urls |->
                        <<"file: ">> \o (IF LastSegment(UrlPath(file_urls[i])) /= <<>> THEN LastSegment(UrlPath(file_urls[i])) ELSE <<"video">>)]
      media_labels == IF image_urls = <<>> /\ file_urls = <<>> /\ \E i \in DOMAIN media_items : media_items[i].kind = "media"
                      THEN Append(file_labels, <<"file: media">>)
                      ELSE file_labels
      desc2 == IF media_labels /= <<>>
               THEN (IF desc1 /= <<>> THEN desc1 \o <<"\n", "\n">> ELSE <<>>) \o Join(media_labels, <<"\n">>)
               ELSE desc1
      title0 == IF Strip(text) /= <<>> THEN Strip(text) ELSE <<"Post ">> \o rec.post_id
      title_text == IF Len(title0) > TitleLimit
                    THEN Reverse(DropLeadingSpace(Reverse(SubSeq(title0, 1, TitleKept)))) \o <<"...">>
                    ELSE title0
  IN [ post_id |-> rec.post_id,
       url |-> <<"https:", "/", "/", "t.me", "/">> \o rec.post_id,
       published |-> rec.published,
       title |-> title_text,
       description |-> Strip(desc2),
       images |-> image_urls ]

\* mutant: the records taken in document order
reversed_not(posts) == posts

\* line 191: list(reversed(parser.posts))
reversed(posts) == Reverse(posts)

RECURSIVE BuildPosts(_, _, _, _)
\* the loop of lines 192-259 from raw_posts[k] on, posts so far in acc
BuildPosts(raw_posts, k, acc, lim) ==
  IF k > Len(raw_posts) THEN acc
  ELSE IF ~HasIdAndTime(raw_posts[k].post_id, raw_posts[k].published) THEN BuildPosts(raw_posts, k + 1, acc, lim)
  ELSE IF lim > 0 /\ Len(acc) + 1 >= lim THEN Append(acc, TelegramPost(raw_posts[k]))
  ELSE BuildPosts(raw_posts, k + 1, Append(acc, TelegramPost(raw_posts[k])), lim)

\* scrape_telegram_channel lines 187-261, after parser.feed(html)
scrape_telegram_channel(p, channel, lim) ==
  [ title |-> IF p.title /= <<>> THEN p.title ELSE <<"Telegram: ">> \o channel,
    description |-> p.description,
    posts |-> BuildPosts(reversed(p.posts), 1, <<>>, lim) ]

(***************************************************************************)
(* Pages: an optional head with Open Graph tags, then up to MaxPosts       *)
(* message widgets, the j-th with identifier chan/j.                       *)
(***************************************************************************)
NoAttrs ==
  [class |-> <<>>, style |-> <<>>, property |-> <<>>, content |-> <<>>, post |-> <<>>, datetime |-> <<>>, href |-> <<>>, src |-> <<>>]

StartTag(tag, attrs) == [kind |-> "start", tag |-> tag, attrs |-> attrs @@ NoAttrs, data |-> <<>>]

EndTag(tag) == [kind |-> "end", tag |-> tag, attrs |-> NoAttrs, data |-> <<>>]

Data(text) == [kind |-> "data", tag |-> "", attrs |-> NoAttrs, data |-> text]

Channel == <<"chan">>

PostId(j) == <<"chan", "/", ToString(j)>>

TimeOf(j) == <<"2026-01-0", ToString(j), "T10:00:00+00:00">>

ImageUrl(name) == <<"https:", "/", "/", "img", "/", name>>

OgImageUrl == <<"https:", "/", "/", "cdn4.telesco.pe", "/", "file", "/", "abc.jpg">>

BgStyle(u) == <<"background-image", ":", "url(", "'">> \o u \o <<"'", ")">>

MessageOpen(post) ==
  << StartTag("div", [class |-> <<"tgme_widget_message", "text_not_supported_wrap", "js-widget_message">>, post |-> post]),
     StartTag("div", [class |-> <<"tgme_widget_message_bubble">>]) >>

MessageClose == << EndTag("div"), EndTag("div") >>

TextBlock(j) ==
  << StartTag("div", [class |-> <<"tgme_widget_message_text", "js-message_text">>]),
     Data(<<"Hello", ToString(j)>>),
     EndTag("div") >>

TimeTag(j) == << StartTag("time", [datetime |-> TimeOf(j)]), EndTag("time") >>

\* the two photo wrappers of test_telegram_parser_images.py
PhotoGroup ==
  << StartTag("a", [class |-> <<"tgme_widget_message_photo_wrap">>, style |-> BgStyle(ImageUrl("1.jpg"))]),
     StartTag("div", [class |-> <<"tgme_widget_message_photo">>, style |-> BgStyle(ImageUrl("1.jpg"))]),
     EndTag("div"),
     EndTag("a"),
     StartTag("a", [class |-> <<"tgme_widget_message_photo_wrap">>]),
     StartTag("div", [class |-> <<"tgme_widget_message_photo">>, style |-> BgStyle(ImageUrl("2.jpg"))]),
     EndTag("div"),
     EndTag("a") >>

\* a video player with its thumbnail and file
VideoGroup(j) ==
  << StartTag("a", [class |-> <<"tgme_widget_message_video_player">>, href |-> <<"/">> \o PostId(j)]),
     StartTag("i", [class |-> <<"tgme_widget_message_video_thumb">>, style |-> BgStyle(ImageUrl("3.jpg"))]),
     EndTag("i"),
     StartTag("video", [src |-> <<"/", "/", "cdn", "/", "v.mp4">>]),
     EndTag("video"),
     EndTag("a") >>

\* a text with a line break and a link in it, then a link preview
LinkedText ==
  << StartTag("div", [class |-> <<"tgme_widget_message_text", "js-message_text">>]),
     Data(<<" ", "Hi", " ", " ", "there", "\r", "\n">>),
     StartTag("br", NoAttrs),
     StartTag("a", [href |-> <<"/", "x">>]),
     Data(<<"x">>),
     EndTag("a"),
     EndTag("div"),
     StartTag("a", [class |-> <<"tgme_widget_message_link_preview">>, href |-> <<"https:", "/", "/", "example.com", "/", "p">>]),
     EndTag("a") >>

MessageKinds == {"plain", "no_id", "no_time", "photos", "video", "links"}

Message(j, kind) ==
  CASE kind = "plain" -> MessageOpen(PostId(j)) \o TextBlock(j) \o TimeTag(j) \o MessageClose
    [] kind = "no_id" -> MessageOpen(<<>>) \o TextBlock(j) \o TimeTag(j) \o MessageClose
    [] kind = "no_time" -> MessageOpen(PostId(j)) \o TextBlock(j) \o MessageClose
    [] kind = "photos" -> MessageOpen(PostId(j)) \o PhotoGroup \o TextBlock(j) \o TimeTag(j) \o MessageClose
    [] kind = "video" -> MessageOpen(PostId(j)) \o VideoGroup(j) \o TimeTag(j) \o MessageClose
    [] OTHER -> MessageOpen(PostId(j)) \o LinkedText \o TimeTag(j) \o MessageClose

\* the head of test_telegram_fallbacks.py, or none
Heads == {"none", "og"}

Head_(head) ==
  IF head = "og"
  THEN << StartTag("meta", [property |-> <<"og:title">>, content |-> <<"Post">>]), EndTag("meta"),
          StartTag("meta", [property |-> <<"og:image">>, content |-> OgImageUrl]), EndTag("meta") >>
  ELSE <<>>

RECURSIVE Messages(_, _)
Messages(kinds, j) ==
  IF j > Len(kinds) THEN <<>> ELSE Message(j, kinds[j]) \o Messages(kinds, j + 1)

Page(head, kinds) == Head_(head) \o Messages(kinds, 1)

Compositions == { [head |-> h, kinds |-> ks] : h \in Heads, ks \in ListsUpTo(MessageKinds, MaxPosts) }

\* _fetch returned a page; the parser is new
InitTelegram ==
  /\ now = 0
  /\ cacheStore = [k \in CacheKeys |-> <<>>]
  /\ limit = 1
  /\ runNo = 0
  /\ runState = "idle"
  /\ raw = <<>>
  /\ semaphore = 1
  /\ cache_hits = 0
  /\ cache_misses = 0
  /\ film_pages_fetched = 0
  /\ tasks = <<>>
  /\ movies = <<>>
  /\ startedAt = 0
  /\ cache0 = cacheStore
  /\ cache = "Cache"
  /\ anchors = <<>>
  /\ prevWrites = [u \in Urls |-> <<>>]
  /\ snapshot = EmptySnapshot
  /\ events = <<>>
  /\ lastCall = NoCall
  /\ FileIdle
  /\ shapes \in Compositions
  /\ html = Page(shapes.head, shapes.kinds)
  /\ fed = 0
  /\ parser = NewParser
  /\ tgLimit = 0
  /\ tgResult = <<>>

nonTelegramVars == <<scrapeVars, storeVars, fileVars>>

\* parser.feed meets a start tag
HandleStartTag ==
  /\ fed < Len(html)
  /\ html[fed + 1].kind = "start"
  /\ parser' = handle_starttag(parser, html[fed + 1].tag, html[fed + 1].attrs)
  /\ fed' = fed + 1
  /\ UNCHANGED <<html, shapes, tgLimit, tgResult>>
  /\ UNCHANGED nonTelegramVars

\* parser.feed meets an end tag
HandleEndTag ==
  /\ fed < Len(html)
  /\ html[fed + 1].kind = "end"
  /\ parser' = handle_endtag(parser, html[fed + 1].tag)
  /\ fed' = fed + 1
  /\ UNCHANGED <<html, shapes, tgLimit, tgResult>>
  /\ UNCHANGED nonTelegramVars

\* parser.feed meets text
HandleData ==
  /\ fed < Len(html)
  /\ html[fed + 1].kind = "data"
  /\ parser' = handle_data(parser, html[fed + 1].data)
  /\ fed' = fed + 1
  /\ UNCHANGED <<html, shapes, tgLimit, tgResult>>
  /\ UNCHANGED nonTelegramVars

\* the page is fed: scrape_telegram_channel(channel, limit) builds and
\* returns the channel
ScrapeReturn(lim) ==
  /\ fed = Len(html)
  /\ tgResult = <<>>
  /\ tgLimit' = lim
  /\ tgResult' = <<scrape_telegram_channel(parser, Channel, lim)>>
  /\ UNCHANGED <<html, shapes, fed, parser>>
  /\ UNCHANGED nonTelegramVars

NextTelegram ==
  \/ HandleStartTag
  \/ HandleEndTag
  \/ HandleData
  \/ \E lim \in (-1)..MaxLimit : ScrapeReturn(lim)

SpecTelegram == InitTelegram /\ [][NextTelegram]_vars

(***************************************************************************)
(* The parser on any token stream: _fetch may return any markup, also      *)
(* unbalanced; the stream is drawn token by token, up to MaxTokens tokens. *)
(***************************************************************************)
MaxTokens == 5

\* <div class="tgme_widget_message" data-post="chan/j">
MessageStart(j) == StartTag("div", [class |-> <<"tgme_widget_message">>, post |-> PostId(j)])

\* <div class="tgme_widget_message_text js-message_text">
TextStart == StartTag("div", [class |-> <<"tgme_widget_message_text", "js-message_text">>])

\* <div class="tgme_widget_message_bubble">
DivStart == StartTag("div", [class |-> <<"tgme_widget_message_bubble">>])

Tokens ==
  { MessageStart(1), MessageStart(2), DivStart, TextStart, EndTag("div"), Data(<<"x">>), StartTag("br", NoAttrs) }

\* a new parser and nothing of the page read yet
InitFeed ==
  /\ now = 0
  /\ cacheStore = [k \in CacheKeys |-> <<>>]
  /\ limit = 1
  /\ runNo = 0
  /\ runState = "idle"
  /\ raw = <<>>
  /\ semaphore = 1
  /\ cache_hits = 0
  /\ cache_misses = 0
  /\ film_pages_fetched = 0
  /\ tasks = <<>>
  /\ movies = <<>>
  /\ startedAt = 0
  /\ cache0 = cacheStore
  /\ cache = "Cache"
  /\ anchors = <<>>
  /\ prevWrites = [u \in Urls |-> <<>>]
  /\ snapshot = EmptySnapshot
  /\ events = <<>>
  /\ lastCall = NoCall
  /\ FileIdle
  /\ shapes = [head |-> "none", kinds |-> <<>>]
  /\ html = <<>>
  /\ fed = 0
  /\ parser = NewParser
  /\ tgLimit = 0
  /\ tgResult = <<>>

\* line 185, parser.feed(html): the markup goes on with any token
NextToken(tok) ==
  /\ fed = Len(html)
  /\ Len(html) < MaxTokens
  /\ html' = Append(html, tok)
  /\ UNCHANGED <<shapes, fed, parser, tgLimit, tgResult>>
  /\ UNCHANGED nonTelegramVars

NextFeed ==
  \/ \E tok \in Tokens : NextToken(tok)
  \/ HandleStartTag
  \/ HandleEndTag
  \/ HandleData

SpecFeed == InitFeed /\ [][NextFeed]_vars

(***************************************************************************)
(* Claims about the enrichment pipeline.                                   *)
(***************************************************************************)
\* the tasks inside the guarded section of fetch_description
ActiveFetches == { i \in TaskIds : tasks[i].pc = "fetching" }

\* C1: in every reachable state of a run, under every interleaving of the
\* build_movie tasks, the number of detail fetches inside the section
\* guarded by the semaphore is at most max_film_pages_concurrency.
C1_ConcurrencyBound == Cardinality(ActiveFetches) <= limit

\* more candidates than permits: the section is full and a task waits
C1_Witness ==
  /\ Len(raw) > limit
  /\ Cardinality(ActiveFetches) = limit
  /\ \E i \in TaskIds : tasks[i].pc = "sem_wait"

\* C2: an exception raised at any step of a detail fetch (opening the page,
\* the work inside it, closing it) is treated as an empty description: the
\* task goes on to its cache write and its record with description "", no
\* task ends by raising, and the run does not fail.
C2_FetchExceptionsCaught ==
  /\ runState /= "failed"
  /\ \A i \in TaskIds :
       tasks[i].raisedAt /= "none" =>
         /\ tasks[i].pc \in {"cache_set", "done"}
         /\ tasks[i].desc = <<>>
         /\ tasks[i].pc = "done" => tasks[i].movie = <<Movie(_normalize_space(raw[i].title), raw[i].url, <<>>)>>

\* the entry a cache read returned is usable: a non-empty description, or an
\* error marker
C3_Usable(cached) ==
  /\ cached /= <<>>
  /\ \/ cached[1].description \notin {None, <<>>}
     \/ cached[1].error \notin {None, <<>>}

\* C3: a candidate whose cache read returned an entry with a non-empty
\* description or with an error marker is counted as a hit, never reaches
\* the detail fetcher, issues no cache write, and its record carries the
\* cached description and the cached title (the candidate's own normalised
\* title when the cached one is empty or missing); hits and fetches are
\* counted accordingly.
C3_CacheHitUsesEntry ==
  /\ \A i \in TaskIds :
       C3_Usable(tasks[i].cached) =>
         /\ tasks[i].counted = "hit"
         /\ tasks[i].pc = "done"
         /\ tasks[i].setCalls = <<>>
         /\ tasks[i].raisedAt = "none"
         /\ tasks[i].movie =
              << [ title |-> IF tasks[i].cached[1].title \in {None, <<>>}
                             THEN _normalize_space(raw[i].title)
                             ELSE tasks[i].cached[1].title,
                   url |-> raw[i].url,
                   description |-> IF tasks[i].cached[1].description = None
                                   THEN <<>>
                                   ELSE tasks[i].cached[1].description ] >>
  /\ runState = "running" =>
       /\ cache_hits = Cardinality({ i \in TaskIds : tasks[i].counted = "hit" })
       /\ film_pages_fetched <= Cardinality({ i \in TaskIds : tasks[i].counted = "miss" })

\* a hit on an entry that carries only an error marker, next to a task that fetches
C3_Witness ==
  \E i \in TaskIds :
    /\ tasks[i].counted = "hit"
    /\ tasks[i].cached[1].error = <<"not_found">>
    /\ tasks[i].cached[1].description = None
    /\ \E j \in TaskIds : tasks[j].pc = "fetching"

\* C4: every candidate counted as a miss issues, once its fetch has settled,
\* exactly one cache write under its fingerprint key: the description, no
\* error marker and the positive TTL when the description is non-empty; a
\* null description, the error marker and the negative TTL when it is empty.
C4_OneWritePerMiss ==
  \A i \in TaskIds :
    (tasks[i].counted = "miss" /\ tasks[i].pc \in {"done", "raised"}) =>
      /\ Len(tasks[i].setCalls) = 1
      /\ tasks[i].setCalls[1].key = cache_key_for_url(raw[i].url)
      /\ IF tasks[i].desc /= <<>>
         THEN /\ tasks[i].setCalls[1].value.description = tasks[i].desc
              /\ tasks[i].setCalls[1].value.error = None
              /\ tasks[i].setCalls[1].ttl = FilmCacheTtlSeconds
         ELSE /\ tasks[i].setCalls[1].value.description = None
              /\ tasks[i].setCalls[1].value.error = <<"not_found">>
              /\ tasks[i].setCalls[1].ttl = CacheNegativeTtlSeconds

\* the previous run stored a negative entry for the URL of task i
C5_PrevNegative(i) ==
  /\ prevWrites[raw[i].url] /= <<>>
  /\ prevWrites[raw[i].url][1].value.error = <<"not_found">>
  /\ prevWrites[raw[i].url][1].value.description = None

\* C5 as stated: when the previous run wrote a negative entry for u and this
\* run started before the entry expired, this run counts u as a hit, issues
\* no fetch and no write for it, and its record has an empty description.
C5_HitWheneverRunStartsBeforeExpiry ==
  \A i \in TaskIds :
    (C5_PrevNegative(i) /\ startedAt < prevWrites[raw[i].url][1].exp /\ tasks[i].pc /= "cache_get") =>
      /\ tasks[i].counted = "hit"
      /\ tasks[i].pc = "done"
      /\ tasks[i].setCalls = <<>>
      /\ tasks[i].movie[1].description = <<>>

\* task i's cache read settles in this step
C5_ReadSettles(i) ==
  /\ tasks[i].pc = "cache_get"
  /\ i \in DOMAIN tasks'
  /\ tasks'[i].pc /= "cache_get"

\* C5, amended: when the previous run wrote a negative entry for u, a cache
\* read for u that does not fail and settles before the entry expires makes
\* u a hit: no fetch is issued and no permit requested, no write is issued,
\* and the record has an empty description. A fetch for u is issued only
\* when the read failed or the entry had expired when it was read.
C5_NegativeEntryReused ==
  [][ \A i \in TaskIds :
        (C5_ReadSettles(i) /\ C5_PrevNegative(i)) =>
          IF ~tasks'[i].getRaised /\ now < prevWrites[raw[i].url][1].exp
          THEN /\ tasks'[i].counted = "hit"
               /\ tasks'[i].pc = "done"
               /\ tasks'[i].setCalls = <<>>
               /\ tasks'[i].movie[1].description = <<>>
               /\ cache_hits' = cache_hits + 1
               /\ cache_misses' = cache_misses
               /\ film_pages_fetched' = film_pages_fetched
          ELSE /\ tasks'[i].counted = "miss"
               /\ tasks'[i].pc = "sem_wait" ]_vars

\* a later run reuses the negative entry of the run before it
C5_Witness ==
  \E i \in TaskIds :
    /\ runNo >= 2
    /\ C5_PrevNegative(i)
    /\ now < prevWrites[raw[i].url][1].exp
    /\ ~tasks[i].getRaised
    /\ tasks[i].counted = "hit"
    /\ tasks[i].movie[1].description = <<>>

\* C6: a failing cache port aborts neither the candidate nor the run. A read
\* that raised is a miss (counted as one, the fetch is called); a write that
\* raised is swallowed and the record is returned with the fetched
\* description; a task ends by raising only when its page raised.
C6_CacheFailuresSwallowed ==
  \A i \in TaskIds :
    /\ tasks[i].getRaised =>
         /\ tasks[i].counted = "miss"
         /\ tasks[i].cached = <<>>
         /\ tasks[i].pc \in {"sem_wait", "fetching", "cache_set", "done", "raised"}
    /\ tasks[i].setRaised =>
         /\ tasks[i].pc = "done"
         /\ Len(tasks[i].setCalls) = 1
         /\ tasks[i].movie = <<Movie(_normalize_space(raw[i].title), raw[i].url, tasks[i].desc)>>
    /\ tasks[i].pc = "raised" => tasks[i].raisedAt \in {"new_page", "close", "body+close"}

\* both cache calls of one candidate failed and its record carries the
\* fetched description
C6_Witness ==
  \E i \in TaskIds :
    /\ tasks[i].getRaised
    /\ tasks[i].setRaised
    /\ tasks[i].pc = "done"
    /\ tasks[i].movie[1].description = <<"d", " ", "d">>

(***************************************************************************)
(* Claims about the state store.                                           *)
(***************************************************************************)
UrlsOf(list) == { list[i].url : i \in DOMAIN list }

\* the URLs of a list ascend strictly
AscendingUrls(list) == \A i, j \in DOMAIN list : i < j => list[i].url < list[j].url

\* the title of the record of URL u in a list (of its last record when the
\* list repeats the URL)
TitleIn(list, u) ==
  list[CHOOSE i \in DOMAIN list : list[i].url = u /\ \A j \in DOMAIN list : j > i => list[j].url /= u].title

\* C7: compute_diff returns as added one record per current URL that is not
\* a key of the previous snapshot, with the current record's title, in
\* ascending URL order, and as removed one record per key of the previous
\* snapshot that is not a current URL, with the snapshot's title, in
\* ascending URL order; a URL on both sides is in neither list, whatever
\* its titles.
C7_DiffExact ==
  lastCall.op = "compute_diff" =>
    LET prev == lastCall.prev_snapshot
        cur == lastCall.current
        added == lastCall.result.added
        removed == lastCall.result.removed
    IN /\ UrlsOf(added) = UrlsOf(cur) \ DOMAIN prev
       /\ AscendingUrls(added)
       /\ \A i \in DOMAIN added : added[i] = [title |-> TitleIn(cur, added[i].url), url |-> added[i].url]
       /\ UrlsOf(removed) = DOMAIN prev \ UrlsOf(cur)
       /\ AscendingUrls(removed)
       /\ \A i \in DOMAIN removed : removed[i] = [title |-> prev[removed[i].url], url |-> removed[i].url]
       /\ \A u \in DOMAIN prev \cap UrlsOf(cur) : u \notin UrlsOf(added) \cup UrlsOf(removed)
       /\ snapshot = prev

\* one added, one removed, and a URL on both sides whose title changed
C7_Witness ==
  /\ lastCall.op = "compute_diff"
  /\ Len(lastCall.result.added) = 1
  /\ Len(lastCall.result.removed) = 1
  /\ \E u \in DOMAIN lastCall.prev_snapshot \cap UrlsOf(lastCall.current) :
       TitleIn(lastCall.current, u) /= lastCall.prev_snapshot[u]

\* the j-th entry of L ++ E for the last append_events call: the earlier
\* log, then an add event per added record, then a remove event per removed
\* record
AppendedEntry(j) ==
  LET nL == Len(lastCall.log)
      nA == Len(lastCall.added)
      m == IF j - nL <= nA THEN lastCall.added[j - nL] ELSE lastCall.removed[j - nL - nA]
  IN IF j <= nL
     THEN lastCall.log[j]
     ELSE [ type |-> IF j - nL <= nA THEN "add" ELSE "remove",
            title |-> m.title, url |-> m.url,
            ts |-> lastCall.ctx.ts, location |-> lastCall.ctx.location, date |-> lastCall.ctx.date ]

AppendedLength == Len(lastCall.log) + Len(lastCall.added) + Len(lastCall.removed)

\* C8: after append_events with bound M on a log L and new events E, the log
\* is the last M entries of L ++ E when M > 0 and L ++ E is longer than M,
\* and L ++ E itself otherwise; so with M > 0 it is never longer than M, and
\* with M <= 0 nothing is discarded.
C8_TrimKeepsNewest ==
  lastCall.op = "append_events" =>
    LET M == lastCall.max_events_in_state
        n == AppendedLength
    IN /\ IF M > 0 /\ n > M
          THEN /\ Len(events) = M
               /\ \A j \in 1..M : events[j] = AppendedEntry(n - M + j)
          ELSE /\ Len(events) = n
               /\ \A j \in 1..n : events[j] = AppendedEntry(j)
       /\ M > 0 => Len(events) <= M
       /\ M <= 0 => Len(events) = n

\* a log of three, two events appended, bound three: the newest three stay
C8_Witness ==
  /\ lastCall.op = "append_events"
  /\ lastCall.max_events_in_state = 3
  /\ Len(lastCall.log) = 3
  /\ Len(lastCall.added) + Len(lastCall.removed) = 2
  /\ Len(events) = 3
  /\ events[1] = lastCall.log[3]

\* the events of the last call that are still in the log: its last entries
NewSurvivors ==
  LET k == IF Len(events) < Len(lastCall.added) + Len(lastCall.removed)
           THEN Len(events)
           ELSE Len(lastCall.added) + Len(lastCall.removed)
  IN SubSeq(events, Len(events) - k + 1, Len(events))

\* C9: the events one call appends are an add event per added record in the
\* order given, then a remove event per removed record in the order given;
\* those that survive the trim are the tail of that sequence, so no remove
\* event of the call precedes an add event of the call, and when the lists
\* come from compute_diff each group ascends by URL.
C9_AddsBeforeRemoves ==
  lastCall.op = "append_events" =>
    LET nA == Len(lastCall.added)
        nR == Len(lastCall.removed)
        new == NewSurvivors
        gone == nA + nR - Len(new)
    IN /\ \A j \in DOMAIN new :
            IF gone + j <= nA
            THEN new[j].type = "add" /\ new[j].url = lastCall.added[gone + j].url /\ new[j].title = lastCall.added[gone + j].title
            ELSE new[j].type = "remove" /\ new[j].url = lastCall.removed[gone + j - nA].url /\ new[j].title = lastCall.removed[gone + j - nA].title
       /\ \A i, j \in DOMAIN new : (i < j /\ new[i].type = "remove") => new[j].type = "remove"
       /\ (lastCall.max_events_in_state <= 0 \/ AppendedLength <= lastCall.max_events_in_state) => Len(new) = nA + nR
       /\ lastCall.from_diff =>
            \A i, j \in DOMAIN new : (i < j /\ new[i].type = new[j].type) => new[i].url < new[j].url

\* added = [X, Y] and removed = [Z] from compute_diff: the log ends
\* add X, add Y, remove Z
C9_Witness ==
  /\ lastCall.op = "append_events"
  /\ lastCall.from_diff
  /\ Len(lastCall.added) = 2
  /\ Len(lastCall.removed) = 1
  /\ Len(events) >= 3
  /\ events[Len(events) - 2].type = "add"
  /\ events[Len(events) - 1].type = "add"
  /\ events[Len(events)].type = "remove"

\* C10: after update_snapshot(state, current) the snapshot is the URL-to-title
\* mapping of current: its keys are the current URLs, no other key of the
\* previous snapshot survives, each title is the current record's, and the
\* event log is untouched.
C10_SnapshotReplaced ==
  lastCall.op = "update_snapshot" =>
    /\ DOMAIN snapshot = UrlsOf(lastCall.current)
    /\ \A u \in DOMAIN snapshot : snapshot[u] = TitleIn(lastCall.current, u)
    /\ \A u \in DOMAIN lastCall.prev_snapshot : u \notin UrlsOf(lastCall.current) => u \notin DOMAIN snapshot
    /\ events = lastCall.log

\* a key of the previous snapshot is dropped, another gets a new title, and
\* the log is not empty
C10_Witness ==
  /\ lastCall.op = "update_snapshot"
  /\ \E u \in DOMAIN lastCall.prev_snapshot : u \notin DOMAIN snapshot
  /\ \E u \in DOMAIN lastCall.prev_snapshot \cap DOMAIN snapshot : snapshot[u] /= lastCall.prev_snapshot[u]
  /\ events /= <<>>

(***************************************************************************)
(* Claims about the state file.                                            *)
(***************************************************************************)
DictKeys(d) == { d.val[i].key : i \in DOMAIN d.val }

RECURSIVE PyEqual(_, _)
\* Python's == on two values: dicts compare by their items whatever the order
PyEqual(a, b) ==
  /\ a.kind = b.kind
  /\ CASE a.kind = "dict" ->
            /\ DictKeys(a) = DictKeys(b)
            /\ \A k \in DictKeys(a) : PyEqual(DictGet(a, k, PyNone), DictGet(b, k, PyNone))
       [] a.kind = "list" ->
            /\ Len(a.val) = Len(b.val)
            /\ \A i \in DOMAIN a.val : PyEqual(a.val[i], b.val[i])
       [] OTHER -> a.str = b.str /\ a.int = b.int

\* C11: load_state of the file save_state wrote for a State returns a State
\* with the same snapshot mapping and the same event sequence, in the same
\* order, whatever the State was (the empty snapshot and the empty log
\* included).
C11_SaveLoadRoundTrip ==
  (loadResult.called /\ loadResult.fromSaved /= <<>>) =>
     /\ ~loadResult.result.raised
     /\ loadResult.result.snapshot.kind = "dict"
     /\ loadResult.result.events.kind = "list"
     /\ PyEqual(loadResult.result.snapshot, PySnapshot(loadResult.fromSaved[1].snapshot))
     /\ PyEqual(loadResult.result.events, PyEvents(loadResult.fromSaved[1].events))
     /\ \A i \in DOMAIN loadResult.result.events.val :
          loadResult.result.events.val[i] = PyEvent(loadResult.fromSaved[1].events[i])

\* a State with two snapshot entries and two events went through the file
C11_Witness ==
  /\ loadResult.called
  /\ loadResult.fromSaved /= <<>>
  /\ Cardinality(DOMAIN loadResult.fromSaved[1].snapshot) >= 2
  /\ Len(loadResult.fromSaved[1].events) >= 2
  /\ Len(loadResult.result.events.val) >= 2

\* the file load_state read cannot be parsed into a snapshot plus event log
C12_Unparsable(file) ==
  \/ file.kind = "unreadable"
  \/ /\ file.kind = "text"
     /\ \/ ~loads(file.text).ok
        \/ loads(file.text).val.kind /= "dict"

\* C12: load_state never raises, and for a missing file, a file that cannot
\* be read, invalid JSON or JSON whose top level is not an object it
\* returns the empty State, snapshot {} and events [].
C12_LoadNeverRaises ==
  loadResult.called =>
     /\ ~loadResult.result.raised
     /\ (loadResult.file.kind = "missing" \/ C12_Unparsable(loadResult.file)) =>
          /\ loadResult.result.snapshot.kind = "dict"
          /\ Len(loadResult.result.snapshot.val) = 0
          /\ loadResult.result.events.kind = "list"
          /\ Len(loadResult.result.events.val) = 0

\* load_state met a top level that is not an object and returned
C12_Witness ==
  /\ loadResult.called
  /\ loadResult.result.exc = "AttributeError"
  /\ ~loadResult.result.raised
  /\ Len(loadResult.result.snapshot.val) = 0

(***************************************************************************)
(* Claims about the list scrape_movies returns.                            *)
(***************************************************************************)
\* C13: every record of the list scrape_movies returned has a non-empty
\* title and a non-empty URL and belongs to a candidate, one record per
\* URL at most: a candidate without URL and a candidate whose title came
\* out empty are not in it, whatever the cache and the fetcher returned.
C13_NoEmptyTitleOrUrl ==
  runState = "returned" =>
    /\ \A j \in DOMAIN movies :
         /\ movies[j].title /= <<>>
         /\ movies[j].url /= 0
         /\ \E i \in DOMAIN raw : raw[i].url = movies[j].url
    /\ \A i, j \in DOMAIN movies : movies[i].url = movies[j].url => i = j

\* a run over a candidate without URL and a candidate whose title is
\* emptied returned, and neither is in the list
C13_Witness ==
  /\ runState = "returned"
  /\ \E i \in DOMAIN raw : raw[i].url = 0
  /\ \E i \in DOMAIN raw : raw[i].url /= 0 /\ _normalize_space(raw[i].title) = <<>>
  /\ movies = <<>>
  /\ film_pages_fetched = 1

\* the record of candidate i as its inputs determine it: the item, the
\* cache content at the start of the run (unless the read failed) and the
\* description the fetch for its URL returned
C14_Expected(i) ==
  LET key == cache_key_for_url(raw[i].url)
      entry == cache0[key]
      cached == IF tasks[i].getRaised \/ entry = <<>> \/ now >= entry[1].exp THEN <<>> ELSE <<entry[1].value>>
      title == _normalize_space(raw[i].title)
  IN IF raw[i].url = 0 THEN Movie(title, 0, <<>>)
     ELSE IF IsCacheHit(cached) THEN HitMovie(raw[i], cached)
     ELSE Movie(title, raw[i].url, tasks[i].desc)

C14_ExpectedKept ==
  { m \in { C14_Expected(i) : i \in TaskIds } : m.title /= <<>> /\ m.url /= 0 }

\* a comes before b by (lower-cased title, URL)
C14_Before(a, b) ==
  \/ TextLess(Lower(a.title), Lower(b.title))
  \/ Lower(a.title) = Lower(b.title) /\ a.url < b.url

\* C14: the list scrape_movies returns is strictly ascending by
\* (lower-cased title, URL) and holds exactly the records the candidates,
\* the cache content at the start of the run and the per-URL fetch results
\* determine, whatever the order in which the tasks ran and completed.
C14_SortedWhateverTheOrder ==
  [][(runState = "running" /\ runState' = "returned") =>
       /\ Len(movies') = Cardinality(C14_ExpectedKept)
       /\ { movies'[j] : j \in DOMAIN movies' } = C14_ExpectedKept
       /\ \A j \in 1..(Len(movies') - 1) : C14_Before(movies'[j], movies'[j + 1])]_vars

\* two fetched records came back in the opposite order of their candidates
C14_Witness ==
  /\ runState = "returned"
  /\ Len(movies) = 2
  /\ movies[1].url > movies[2].url
  /\ film_pages_fetched = 2
  /\ limit = 2

\* C15: scrape_movies ends, by returning or by raising, only when every
\* candidate's build_movie has settled; no task is left in flight.
C15_EndsAfterAllSettled ==
  [][(runState = "running" /\ runState' \in {"returned", "failed"}) =>
       \A i \in TaskIds : tasks[i].pc \in {"done", "raised"}]_vars

\* C16: during a run the permits taken from the semaphore are exactly the
\* fetches in progress, whether fetches returned a description, returned
\* none or raised, and once every candidate has settled all
\* max_film_pages_concurrency permits are free.
C16_PermitsReleased ==
  runState = "running" =>
    /\ semaphore >= 0
    /\ limit - semaphore = Cardinality(ActiveFetches)
    /\ (\A i \in TaskIds : tasks[i].pc \in {"done", "raised"}) => semaphore = limit

\* a fetch raised, another returned, and all permits are back
C16_Witness ==
  /\ runState = "running"
  /\ \E i \in TaskIds : tasks[i].pc = "raised"
  /\ \E i \in TaskIds : tasks[i].pc = "done" /\ tasks[i].counted = "miss"
  /\ \A i \in TaskIds : tasks[i].pc \in {"done", "raised"}
  /\ semaphore = limit

(***************************************************************************)
(* Claims about the Telegram channel scraper.                              *)
(***************************************************************************)
\* the URLs of the image entries of a raw record, in order
C17_Images(rec) == MediaUrls(rec.media, "image")

\* C17: the record of a message with two photo wrappers, the first carrying
\* the background image 1.jpg itself and the second in its inner photo
\* element 2.jpg, has exactly the image entries 1.jpg, 2.jpg in that order.
C17_ImagesInDocumentOrder ==
  \A k \in DOMAIN parser.posts :
    shapes.kinds[k] = "photos" => C17_Images(parser.posts[k]) = <<ImageUrl("1.jpg"), ImageUrl("2.jpg")>>

\* the messages of the page that carry identifier and timestamp, by number
ValidMessages == { j \in DOMAIN shapes.kinds : shapes.kinds[j] \notin {"no_id", "no_time"} }

Min(a, b) == IF a < b THEN a ELSE b

\* C18: no post of the returned channel lacks identifier or timestamp, the
\* identifier of a message without timestamp and the timestamp of a message
\* without identifier occur in no returned post, the call returns, and the
\* number of returned posts is the number of messages having both, cut to
\* the limit when it is positive: incomplete records take no place under
\* the limit and complete ones are all eligible.
C18_IncompleteRecordsDropped ==
  tgResult /= <<>> =>
    /\ \A k \in DOMAIN tgResult[1].posts :
         /\ tgResult[1].posts[k].post_id /= <<>>
         /\ tgResult[1].posts[k].published /= <<>>
         /\ \E j \in ValidMessages :
              tgResult[1].posts[k].post_id = PostId(j) /\ tgResult[1].posts[k].published = TimeOf(j)
    /\ Len(tgResult[1].posts) =
         IF tgLimit > 0 THEN Min(tgLimit, Cardinality(ValidMessages)) ELSE Cardinality(ValidMessages)

\* the newest record of the page is incomplete and the limit of one is
\* filled by the complete record before it
C18_Witness ==
  /\ tgResult /= <<>>
  /\ tgLimit = 1
  /\ Len(shapes.kinds) = 3
  /\ shapes.kinds[3] = "no_time"
  /\ shapes.kinds[2] = "no_id"
  /\ shapes.kinds[1] = "plain"
  /\ Len(tgResult[1].posts) = 1

\* the identifiers of the complete messages, last message of the page first
C19_ReversedValidIds ==
  LET js == Reverse(SeqOfSet(ValidMessages))
  IN [i \in DOMAIN js |-> PostId(js[i])]

\* C19: the returned posts are the complete records in the reverse of
\* their document order, all of them when the limit is zero or negative and
\* the first `limit` of that reversed sequence when it is positive.
C19_CappedReversedOrder ==
  tgResult /= <<>> =>
    LET n == IF tgLimit > 0 THEN Min(tgLimit, Len(C19_ReversedValidIds)) ELSE Len(C19_ReversedValidIds)
    IN /\ Len(tgResult[1].posts) = n
       /\ \A k \in 1..n : tgResult[1].posts[k].post_id = C19_ReversedValidIds[k]

\* three complete records, a limit of two: the last two of the page, last first
C19_Witness ==
  /\ tgResult /= <<>>
  /\ tgLimit = 2
  /\ Cardinality(ValidMessages) = 3
  /\ Len(tgResult[1].posts) = 2
  /\ tgResult[1].posts[1].post_id = PostId(3)
  /\ tgResult[1].posts[2].post_id = PostId(2)

\* C20: on a page whose head carries an og:image tag, a returned post whose
\* message has no image-bearing element has images equal to the list
\* holding the og:image URL alone.
C20_OgImageFallback ==
  (tgResult /= <<>> /\ shapes.head = "og") =>
    \A k \in DOMAIN tgResult[1].posts :
      \A j \in DOMAIN shapes.kinds :
        (tgResult[1].posts[k].post_id = PostId(j) /\ shapes.kinds[j] \in {"plain", "links"}) =>
           tgResult[1].posts[k].images = <<OgImageUrl>>

\* the candidates of the run that carry a URL
CandidatesWithUrl == {i \in DOMAIN raw : raw[i].url /= 0}

\* C21: the null-object cache stores nothing, answers absent for every key
\* and never raises, so with it no candidate is a hit: every candidate with
\* a URL is counted as a miss, and when its coroutine has returned it has
\* gone through the fetch; a run that returns counted and fetched them all.
C21_NullCacheNeverHits ==
  cache = "NullCache" =>
    /\ \A k \in CacheKeys : cacheStore[k] = <<>> /\ NullCache_get_json(k) = <<>>
    /\ cache_hits = 0
    /\ runState = "running" =>
         \A i \in CandidatesWithUrl :
           /\ tasks[i].cached = <<>>
           /\ ~tasks[i].getRaised /\ ~tasks[i].setRaised
           /\ tasks[i].counted /= "hit"
           /\ tasks[i].pc /= "cache_get" => tasks[i].counted = "miss"
           /\ tasks[i].pc = "done" => Len(tasks[i].setCalls) = 1
    /\ runState = "returned" =>
         /\ cache_misses = Cardinality(CandidatesWithUrl)
         /\ film_pages_fetched = Cardinality(CandidatesWithUrl)

\* a run with the null cache returned after two misses and two fetches
C21_Witness ==
  /\ cache = "NullCache"
  /\ runState = "returned"
  /\ cache_misses = 2
  /\ film_pages_fetched = 2
  /\ cache_hits = 0

(***************************************************************************)
(* Claims about the parser on any token stream. The nesting of the markup  *)
(* is tracked here from the tokens alone, apart from the parser's          *)
(* counters.                                                               *)
(***************************************************************************)
IsDivStart(tok) == tok.kind = "start" /\ tok.tag = "div"

IsDivEnd(tok) == tok.kind = "end" /\ tok.tag = "div"

IsMessageStart(tok) == IsDivStart(tok) /\ HasClassToken(tok.attrs.class, "tgme_widget_message")

IsTextStart(tok) == IsDivStart(tok) /\ HasClassToken(tok.attrs.class, "js-message_text")

RECURSIVE OpenDivs(_)
\* the positions of the <div> start tags among the first k tokens whose
\* element is still open, outermost first
OpenDivs(k) ==
  IF k = 0 THEN <<>>
  ELSE LET open == OpenDivs(k - 1)
       IN IF IsDivStart(html[k]) THEN Append(open, k)
          ELSE IF IsDivEnd(html[k]) /\ open /= <<>> THEN SubSeq(open, 1, Len(open) - 1)
          ELSE open

\* no </div> among the first k tokens came without an open <div>
NoSurplusEnd(k) == \A n \in 1..k : IsDivEnd(html[n]) => OpenDivs(n - 1) /= <<>>

\* the record-boundary start tags among the first k tokens whose element
\* has been closed, in the order of the start tags
ClosedMessages(k) ==
  SelectSeq([n \in 1..k |-> n],
            LAMBDA n : IsMessageStart(html[n]) /\ \A m \in DOMAIN OpenDivs(k) : OpenDivs(k)[m] /= n)

\* C22: on markup without surplus end tags, after every token the emitted
\* records are those of the record-boundary start tags whose balancing end
\* tag has been processed, one per start tag, in the order of the start tags.
C22_OneRecordPerBoundaryTag ==
  NoSurplusEnd(fed) =>
    /\ Len(parser.posts) = Len(ClosedMessages(fed))
    /\ \A k \in DOMAIN parser.posts : parser.posts[k].post_id = html[ClosedMessages(fed)[k]].attrs.post

\* after k tokens the scan is inside a text-holding element that lies
\* inside a record-boundary element
InsideTextElement(k) ==
  \E m, n \in DOMAIN OpenDivs(k) :
    /\ m < n
    /\ IsMessageStart(html[OpenDivs(k)[m]])
    /\ IsTextStart(html[OpenDivs(k)[n]])

\* the text and line-break tokens among the first k that stand inside a
\* text-holding element
TextTokensInside(k) ==
  { n \in 1..k : (html[n].kind = "data" \/ html[n].tag = "br") /\ InsideTextElement(n - 1) }

\* C23: after every token, the text-region flag is set only inside a
\* text-holding element within a record, and the text buffer of the record
\* being built holds nothing but tokens that stood inside such an element.
C23_TextFlagOnlyInsideTextElement ==
  /\ parser.in_text => InsideTextElement(fed)
  /\ parser.current /= <<>> => Len(parser.current[1].text_parts) <= Cardinality(TextTokensInside(fed))

\* C24: on every token stream both depth counters stay at or above zero and
\* the message flag is set exactly when the message depth is at least one.
C24_CountersNeverNegative ==
  /\ parser.message_depth >= 0
  /\ parser.text_div_depth >= 0
  /\ parser.in_message <=> parser.message_depth >= 1
  /\ parser.text_div_depth >= 1 => parser.in_text

\* C24: an end tag that would take a counter to zero or below leaves the
\* counter at zero and its flag cleared.
C24_ClampStep ==
  (fed' = fed + 1 /\ IsDivEnd(html[fed + 1])) =>
    /\ (parser.in_text /\ parser.text_div_depth - 1 <= 0) =>
         (parser'.text_div_depth = 0 /\ ~parser'.in_text)
    /\ (parser.in_message /\ parser.message_depth - 1 <= 0) =>
         (parser'.message_depth = 0 /\ ~parser'.in_message)
    /\ ~parser.in_message => parser'.message_depth = 0
    /\ ~parser.in_text => parser'.text_div_depth = 0

\* C24: both parts, for every token stream, also unbalanced ones.
C24_CountersClamped == []C24_CountersNeverNegative /\ [][C24_ClampStep]_vars

\* a record was emitted and a surplus </div> has been handled after that
C24_Witness ==
  /\ fed = Len(html)
  /\ fed >= 3
  /\ IsDivEnd(html[fed])
  /\ OpenDivs(fed - 1) = <<>>
  /\ parser.posts /= <<>>
  /\ parser.message_depth = 0
  /\ ~parser.in_message

(***************************************************************************)
(* Further claims about the enrichment pipeline.                           *)
(***************************************************************************)
\* the tasks whose cache read or cache write is in flight
InCacheIO == { i \in TaskIds : tasks[i].pc \in {"cache_get", "cache_set"} }

\* C25: during a run the permits taken are exactly those of the tasks
\* inside the guarded fetch; a task whose cache read or write is in flight
\* holds none.
C25_PermitsOnlyInFetch ==
  runState = "running" =>
    /\ semaphore = limit - Cardinality(ActiveFetches)
    /\ InCacheIO \cap ActiveFetches = {}

\* C25: a step in which a task's cache read or cache write settles is taken
\* by a task outside the guarded fetch and neither takes nor returns a
\* permit; the read comes before the task's fetch is counted and the write
\* after its fetch has settled.
C25_CacheStep ==
  \A i \in TaskIds :
    (runState' = "running" /\ (tasks'[i].counted /= tasks[i].counted \/ tasks'[i].setCalls /= tasks[i].setCalls)) =>
      /\ i \notin ActiveFetches
      /\ semaphore' = semaphore
      /\ tasks'[i].counted /= tasks[i].counted => tasks[i].pc = "cache_get"
      /\ tasks'[i].setCalls /= tasks[i].setCalls => tasks[i].pc = "cache_set" /\ tasks[i].raisedAt \in {"none", "body"}

\* C25: both parts, under every interleaving.
C25_NoCacheIOUnderPermit == []C25_PermitsOnlyInFetch /\ [][C25_CacheStep]_vars

\* more tasks wait for their cache write than there are permits, and every
\* permit is free
C25_Witness ==
  /\ runState = "running"
  /\ limit = 1
  /\ \A i \in TaskIds : tasks[i].pc = "cache_set"
  /\ Cardinality(InCacheIO) = 2
  /\ semaphore = limit

(***************************************************************************)
(* Claims about successive runs over one State.                            *)
(***************************************************************************)
\* the positions of the events of URL u in the log, oldest first
EventsOf(u) == SelectSeq([k \in 1..Len(events) |-> k], LAMBDA k : events[k].url = u)

\* C26: over any sequence of runs from the empty State, the events of one
\* URL in the log alternate between add and remove, trimmed or not, and a
\* URL with an event in the log is a key of the snapshot exactly when its
\* last event is an add.
C26_EventsAlternate ==
  \A u \in StoreUrls :
    LET at == EventsOf(u)
    IN /\ \A k \in 1..(Len(at) - 1) : events[at[k]].type /= events[at[k + 1]].type
       /\ at /= <<>> => (u \in DOMAIN snapshot <=> events[at[Len(at)]].type = "add")

\* a URL was added, removed and added again, and a trim has cut the log
C26_Witness ==
  /\ runNo = 3
  /\ Len(events) = 2
  /\ events[1].url = 1 /\ events[1].type = "remove"
  /\ events[2].url = 1 /\ events[2].type = "add"
  /\ 1 \in DOMAIN snapshot
  /\ lastCall.max_events_in_state = 2

\* C27: after a run over the record list R, compute_diff of the new
\* snapshot and R is two empty lists, also when R repeats a URL.
C27_DiffEmptyAfterUpdate ==
  lastCall.op = "run" =>
    compute_diff(snapshot, lastCall.current) = [added |-> <<>>, removed |-> <<>>]

\* C27: a run whose records have the URLs of the previous run's appends no
\* event: the log is at most trimmed, and unchanged when within the bound.
C27_SameUrlsStep ==
  (runNo' = runNo + 1 /\ DOMAIN snapshot' = DOMAIN snapshot) =>
    /\ Len(events') <= Len(events)
    /\ events' = SubSeq(events, Len(events) - Len(events') + 1, Len(events))
    /\ (lastCall'.max_events_in_state <= 0 \/ Len(events) <= lastCall'.max_events_in_state) => events' = events

\* C27: both parts, over any sequence of runs.
C27_NoEventWithoutChange == []C27_DiffEmptyAfterUpdate /\ [][C27_SameUrlsStep]_vars

\* a run over a list that names URL 1 twice, with the URLs of the run
\* before it, left a log of two events as it was
C27_Witness ==
  /\ runNo >= 2
  /\ lastCall.op = "run"
  /\ Len(lastCall.current) = 2
  /\ lastCall.current[1].url = 1 /\ lastCall.current[2].url = 1
  /\ lastCall.current[1].title /= lastCall.current[2].title
  /\ DOMAIN snapshot = {1}
  /\ Len(events) = 2
  /\ events[2].type = "add" /\ events[2].url = 1

\* C28: at every moment of a run the two cache counters count the tasks
\* that went the hit way and the miss way, each once, and the fetch counter
\* the misses admitted to the guarded fetch; when scrape_movies returns,
\* hits plus misses is the number of candidates with a URL and the fetches
\* equal the misses.
C28_CountersAddUp ==
  /\ runState = "running" =>
       /\ cache_hits = Cardinality({ i \in TaskIds : tasks[i].counted = "hit" })
       /\ cache_misses = Cardinality({ i \in TaskIds : tasks[i].counted = "miss" })
       /\ film_pages_fetched = Cardinality({ i \in TaskIds : tasks[i].counted = "miss" /\ tasks[i].pc /= "sem_wait" })
       /\ \A i \in TaskIds : tasks[i].counted /= "none" <=> (raw[i].url /= 0 /\ tasks[i].pc /= "cache_get")
       /\ \A i \in TaskIds : tasks[i].counted = "hit" => tasks[i].setCalls = <<>> /\ tasks[i].pc = "done"
  /\ runState = "returned" =>
       /\ cache_hits + cache_misses = Cardinality(CandidatesWithUrl)
       /\ film_pages_fetched = cache_misses

\* a run over two candidates with a URL returned with one hit, one miss
\* and one fetch
C28_Witness ==
  /\ runState = "returned"
  /\ Cardinality(CandidatesWithUrl) = 2
  /\ cache_hits = 1
  /\ cache_misses = 1
  /\ film_pages_fetched = 1

\* the position of the first anchor with URL u
FirstAnchor(u) == CHOOSE k \in DOMAIN anchors : anchors[k].url = u /\ \A n \in DOMAIN anchors : anchors[n].url = u => k <= n

\* C29: whatever anchors the listing page repeats, the candidate list of a
\* run holds each URL once, with the item of its first anchor; so no two
\* tasks of the run have the same URL, each task is admitted to one fetch
\* and writes its cache key once at most, and the fetches of the run do not
\* exceed the number of distinct URLs.
C29_OneTaskPerUrl ==
  runState \in {"running", "returned", "failed"} =>
    /\ \A i, j \in DOMAIN raw : raw[i].url = raw[j].url => i = j
    /\ { raw[i].url : i \in DOMAIN raw } = { anchors[k].url : k \in DOMAIN anchors }
    /\ \A i \in DOMAIN raw : raw[i] = anchors[FirstAnchor(raw[i].url)]
    /\ film_pages_fetched <= Cardinality({ anchors[k].url : k \in DOMAIN anchors })
    /\ runState = "running" =>
         /\ DOMAIN tasks = DOMAIN raw
         /\ \A i \in TaskIds :
              /\ Len(tasks[i].setCalls) <= 1
              /\ tasks[i].setCalls /= <<>> => tasks[i].setCalls[1].key = cache_key_for_url(raw[i].url)
         /\ film_pages_fetched = Cardinality({ i \in TaskIds : tasks[i].pc \in {"fetching", "cache_set", "raised"} \/ tasks[i].setCalls /= <<>> })

\* the page shows film 1 twice, under two titles, around film 2; the run
\* returned after two fetches and the first title of film 1 is the one kept
C29_Witness ==
  /\ runState = "returned"
  /\ Len(anchors) = 3
  /\ anchors[1] = OtherAnchor
  /\ anchors[2].url = 2
  /\ anchors[3] = Item(1)
  /\ raw = <<OtherAnchor, anchors[2]>>
  /\ film_pages_fetched = 2

====
